---------------------------- MODULE Spec2Model ----------------------------
(***************************************************************************)
(* Model of the optimix image pipeline:                                    *)
(*   - ImageOptimizer.optimizeBatch / optimizeSingle / optimizeSVG with    *)
(*     the per-instance result cache (image-optimizer.ts),                 *)
(*   - AdvancedOptimizer.calculateOptimalQuality / recommendFormats        *)
(*     (advanced-optimizer.ts),                                            *)
(*   - ImageOptimizer.convertCodebaseImages over CodebaseScanner.scan and  *)
(*     replaceImageReference (codebase-scanner.ts),                        *)
(*   - several ImageOptimizer instances side by side.                      *)
(*                                                                         *)
(* Paths are records [dir, name, ext]; the metrics of the decision engine  *)
(* are fixed-point numbers in hundredths (0.6 is 60), which keeps every    *)
(* threshold comparison of the source exact.                               *)
(***************************************************************************)
EXTENDS Integers, Sequences, FiniteSets, TLC

VARIABLES
    config,      \* ImageOptimizer.config (the fields the batch layer reads)
    cache,       \* ImageOptimizer.cache : absolute path -> OptimizationResult
    files,       \* argument of the running optimizeBatch call
    i,           \* loop variable of optimizeBatch (0-based offset)
    ops,         \* one optimizeSingle invocation per position of files
    results,     \* optimizeBatch local results[]
    errors,      \* optimizeBatch local errors[]
    pc,          \* position of optimizeBatch: idle, loop, await, done
    outcome,     \* the BatchResult returned by optimizeBatch
    work,        \* instrumentation: expensive computations done per path
    nextComp,    \* instrumentation: identity of the next record created
    metrics,     \* decision engine input: the six metrics (hundredths)
    metadata,    \* decision engine input: ImageMetadata
    analysis,    \* decision engine output of analyzeAdvanced
    buffer,      \* metrics extractor input: the raw pixels and their info
    extracted,   \* metrics extractor output: the six metrics
    bufferReads, \* history: every data[...] read of the extractor
    disk,        \* the source files under the scan root: path -> lines
    unreadable,  \* the source files that fs.readFile rejects
    cpc,         \* position of convertCodebaseImages
    thrown,      \* the error convertCodebaseImages rejected with
    scanResult,  \* ScanResult: references and uniqueImages
    imageIdx,    \* iteration position in scanResult.uniqueImages
    refQueue,    \* references of the current image still to rewrite
    artifact,    \* the current image and its result.optimized[0]
    convErrors,  \* convertCodebaseImages local errors[]
    convertedImages, \* convertCodebaseImages local Set
    updatedFiles,    \* convertCodebaseImages local Set
    convOutcome, \* the CodebaseConversionResult returned
    edits,       \* environment: edits by other programs so far
    rewriteLog,  \* history: every replaceImageReference call made
    userConfig,  \* history: the argument the constructor was given
    instances,   \* the ImageOptimizer objects constructed so far
    lastCall     \* history: the last optimizeSingle call on an instance

batchVars == <<config, cache, files, i, ops, results, errors, pc, outcome,
               work, nextComp>>

engineVars == <<metrics, metadata, analysis, buffer, extracted,
                bufferReads>>

codebaseVars == <<disk, unreadable, cpc, thrown, scanResult, imageIdx,
                  refQueue, artifact, convErrors, convertedImages,
                  updatedFiles, convOutcome, edits, rewriteLog, userConfig>>

instanceVars == <<instances, lastCall>>

vars == <<batchVars, engineVars, codebaseVars, instanceVars>>

---------------------------------------------------------------------------
(* Bounds of the model *)

MaxFiles == 3

MaxParallel == 2

(* Program constants *)

DefaultParallel == 4

Min(a, b) == IF a < b THEN a ELSE b

Max(a, b) == IF a > b THEN a ELSE b

---------------------------------------------------------------------------
(* The file system the optimizer runs against *)

\* process.cwd() as a list of directory names, for the code base scan
ProcessCwd == <<"w">>

P(d, n, e) == [dir |-> d, name |-> n, ext |-> e]

\* paths a caller may pass: one relative and one absolute spelling of the
\* same raster, an SVG with an upper-case extension, a path that does not
\* exist and a raster whose data cannot be decoded
InputPaths ==
    { P(".", "a", "png"), P("/w", "a", "png"), P("/w", "b", "SVG"),
      P("/w", "m", "png"), P("/w", "c", "jpg") }

MissingFiles == { P("/w", "m", "png") }

CorruptFiles == { P("/w", "c", "jpg") }

\* path.resolve(inputPath): a relative path is anchored at the working
\* directory, an absolute path is returned as it is
resolve(p) == IF p.dir = "." THEN [p EXCEPT !.dir = "/w"] ELSE p

\* decodable rasters that share the base name a: one beside a.png with
\* another extension, one in a subdirectory
SameNamePaths == { P("/w", "a", "jpg"), P("/w/sub", "a", "png") }

AbsPaths == { resolve(p) : p \in InputPaths \cup SameNamePaths }

\* String.prototype.toLowerCase on the extensions that occur
toLowerCase(e) == IF e = "SVG" THEN "svg" ELSE e

\* path.extname(absolutePath).toLowerCase()
extname(p) == toLowerCase(p.ext)

\* fs.stat(...).size of a source image, by extension
fileSize(p) == IF extname(p) = "svg" THEN 50 ELSE 100

\* the size of the file that convertAndOptimize writes, by format
encodedSize(format) ==
    IF format = "avif" THEN 20
    ELSE IF format = "webp" THEN 40
    ELSE IF format = "jpeg" THEN 60 ELSE 80

\* optimizedSize of SVGOptimizer.optimizeWithCustomAlgorithms
svgOptimizedSize == 30

---------------------------------------------------------------------------
(* AdvancedOptimizer: the decision engine.  Metrics are in hundredths. *)

\* values on both sides of every threshold of the engine, and the literal
\* input of the documented example
MetricsInputs ==
    [complexity : {50, 70, 71, 80}, edgeDensity : {30, 60, 61},
     colorVariance : {19, 20, 50}, noiseLevel : {10, 30, 31},
     textLikelihood : {10, 29, 30, 40, 41, 60, 61},
     photoLikelihood : {60, 61, 70, 71, 80}]

\* widths and heights with pixel counts 99900, 100000, 500000, 2000000
\* and 2001000; isAnimated is optional in the parameter type: "absent" is
\* undefined
MetadataInputs ==
    { [width |-> d[1], height |-> d[2], hasAlpha |-> a, isAnimated |-> an] :
        d \in { <<300, 333>>, <<400, 250>>, <<1000, 500>>, <<2000, 1000>>,
                <<2001, 1000>> },
        a \in BOOLEAN, an \in {"true", "false", "absent"} }

\* JavaScript truthiness of an optional boolean
truthy(b) == b = "true"

\* the rules with the complexity rule applied before the photo cap
runningQuality_reordered(params) ==
    LET q0 == 80
        q1 == IF params.textLikelihood > 60 THEN 92
              ELSE IF params.textLikelihood > 40 THEN 88 ELSE q0
        q2 == IF params.complexity > 70 /\ params.textLikelihood < 30
              THEN q1 - 5 ELSE q1
        q3 == IF params.photoLikelihood > 70 THEN Min(q2, 78) ELSE q2
        q4 == IF params.edgeDensity > 60 THEN q3 + 8 ELSE q3
        q5 == IF params.colorVariance < 20 THEN q4 + 5 ELSE q4
        q6 == IF params.noiseLevel > 30 THEN q5 - 3 ELSE q5
        q7 == IF params.metadata.hasAlpha THEN q6 + 3 ELSE q6
        pixels == params.metadata.width * params.metadata.height
    IN  IF pixels < 100000 THEN q7 + 5
        ELSE IF pixels > 2000000 THEN q7 - 3 ELSE q7

\* calculateOptimalQuality, lines 229-274: the running value `quality`
\* after each rule in turn
runningQuality(params) ==
    LET q0 == 80
        q1 == IF params.textLikelihood > 60 THEN 92
              ELSE IF params.textLikelihood > 40 THEN 88 ELSE q0
        q2 == IF params.photoLikelihood > 70 THEN Min(q1, 78) ELSE q1
        q3 == IF params.complexity > 70 /\ params.textLikelihood < 30
              THEN q2 - 5 ELSE q2
        q4 == IF params.edgeDensity > 60 THEN q3 + 8 ELSE q3
        q5 == IF params.colorVariance < 20 THEN q4 + 5 ELSE q4
        q6 == IF params.noiseLevel > 30 THEN q5 - 3 ELSE q5
        q7 == IF params.metadata.hasAlpha THEN q6 + 3 ELSE q6
        pixels == params.metadata.width * params.metadata.height
    IN  IF pixels < 100000 THEN q7 + 5
        ELSE IF pixels > 2000000 THEN q7 - 3 ELSE q7

\* the running value returned without the final clamp
calculateOptimalQuality_unclamped(params) == runningQuality(params)

\* calculateOptimalQuality, line 276:
\* Math.max(65, Math.min(95, Math.round(quality))); the running value is
\* an integer throughout, on which Math.round changes nothing
calculateOptimalQuality(params) ==
    Max(65, Min(95, runningQuality(params)))

\* the animated test placed after the text branch
recommendFormats_textFirst(params) ==
    IF params.textLikelihood > 60 THEN <<"webp", "png">>
    ELSE IF truthy(params.isAnimated) THEN <<"webp", "gif">>
         ELSE IF params.photoLikelihood > 60
              THEN <<"avif", "webp", "jpeg">>
              ELSE <<"webp">> \o (IF params.hasAlpha THEN <<"png">>
                                  ELSE <<"jpeg">>)

\* the still-image branches guarded by isAnimated === false, which an
\* absent isAnimated does not pass
recommendFormats_strict(params) ==
    IF truthy(params.isAnimated) THEN <<"webp", "gif">>
    ELSE IF params.isAnimated # "false" THEN <<>>
    ELSE IF params.textLikelihood > 60 THEN <<"webp", "png">>
         ELSE IF params.photoLikelihood > 60
              THEN <<"avif", "webp", "jpeg">>
              ELSE <<"webp">> \o (IF params.hasAlpha THEN <<"png">>
                                  ELSE <<"jpeg">>)

\* the photo branch tested before the text branch
recommendFormats_photoFirst(params) ==
    IF truthy(params.isAnimated) THEN <<"webp", "gif">>
    ELSE IF params.photoLikelihood > 60 THEN <<"avif", "webp", "jpeg">>
         ELSE IF params.textLikelihood > 60 THEN <<"webp", "png">>
              ELSE <<"webp">> \o (IF params.hasAlpha THEN <<"png">>
                                  ELSE <<"jpeg">>)

\* recommendFormats
recommendFormats(params) ==
    IF truthy(params.isAnimated) THEN <<"webp", "gif">>
    ELSE IF params.textLikelihood > 60
         THEN (IF params.hasAlpha THEN <<"webp", "png">>
               ELSE <<"webp", "png">>)
         ELSE IF params.photoLikelihood > 60
              THEN <<"avif", "webp", "jpeg">>
              ELSE <<"webp">> \o (IF params.hasAlpha THEN <<"png">>
                                  ELSE <<"jpeg">>)

---------------------------------------------------------------------------
(* ImageOptimizer: construction *)

\* an optional option of the caller's configuration: absent, or a value
Absent == [given |-> FALSE, value |-> <<>>]

Given(v) == [given |-> TRUE, value |-> v]

\* the quality mode: 'auto' or a fixed integer
Auto == [auto |-> TRUE, value |-> 0]

Fixed(n) == [auto |-> FALSE, value |-> n]

\* the options left out by a caller who sets only the output directory;
\* "absent" is undefined
PlainConfig ==
    [outputDir |-> "/out", formats |-> Absent, quality |-> Absent,
     parallel |-> 0, cacheEnabled |-> "absent", autoFormat |-> "absent",
     updateCodebase |-> "absent", codebaseRoot |-> Absent]

\* x ?? d on an optional boolean
orElse(b, d) == IF b = "absent" THEN d ELSE b = "true"

\* constructor, lines 27-41: formats: config.formats || ['webp'],
\* quality: config.quality ?? 'auto', parallel: config.parallel || 4,
\* cacheEnabled: config.cacheEnabled ?? true, autoFormat ?? false,
\* updateCodebase ?? false, codebaseRoot: config.codebaseRoot || cwd
constructor(c) ==
    [outputDir      |-> c.outputDir,
     formats        |-> IF c.formats.given THEN c.formats.value
                        ELSE <<"webp">>,
     quality        |-> IF c.quality.given THEN c.quality.value ELSE Auto,
     parallel       |-> IF c.parallel = 0 THEN DefaultParallel
                        ELSE c.parallel,
     cacheEnabled   |-> orElse(c.cacheEnabled, TRUE),
     autoFormat     |-> orElse(c.autoFormat, FALSE),
     updateCodebase |-> orElse(c.updateCodebase, FALSE),
     codebaseRoot   |-> IF c.codebaseRoot.given THEN c.codebaseRoot.value
                        ELSE ProcessCwd]

NoRec == [path |-> P("", "", ""), comp |-> 0, originalSize |-> 0,
          optimized |-> <<>>]

\* a JavaScript number that a division produced, kept as numerator and
\* denominator: 0/0 is NaN, n/0 an infinity
Num(n, d) == [num |-> n, den |-> d]

defined(x) == x.den # 0

\* x + y
plus(x, y) == Num(x.num * y.den + y.num * x.den, x.den * y.den)

Settled == {"fulfilled", "rejected"}

InFlight == {"stat", "decode", "svg"}

NoAnalysis == [done |-> FALSE, recommendedQuality |-> 0,
               recommendedFormats |-> <<>>]

IdleMetrics == [complexity |-> 0, edgeDensity |-> 0, colorVariance |-> 0,
                noiseLevel |-> 0, textLikelihood |-> 0, photoLikelihood |-> 0]

IdleMetadata == [width |-> 0, height |-> 0, hasAlpha |-> FALSE,
                 isAnimated |-> "false"]

NoExtracted ==
    [done |-> FALSE, complexity |-> Num(0, 1), edgeDensity |-> Num(0, 1),
     colorVariance |-> Num(0, 1), noiseLevel |-> Num(0, 1),
     textLikelihood |-> Num(0, 1), photoLikelihood |-> Num(0, 1)]

\* no pixel buffer decoded
IdleExtractor ==
    /\ buffer = [width |-> 0, height |-> 0, channels |-> 0,
                 data |-> [k \in {} |-> 0]]
    /\ extracted = NoExtracted
    /\ bufferReads = {}

\* the fields of a new instance and an optimizeBatch not yet called
IdleOptimizer ==
    /\ cache = [p \in {} |-> NoRec]
    /\ files = <<>>
    /\ i = 0
    /\ ops = <<>>
    /\ results = <<>>
    /\ errors = <<>>
    /\ pc = "idle"
    /\ outcome =
           [filesProcessed |-> 0, results |-> <<>>, errors |-> <<>>,
            totalSavings |-> [bytes |-> Num(0, 1),
                              percentage |-> Num(0, 1)]]
    /\ work = [p \in AbsPaths |-> 0]
    /\ nextComp = 1

NoScan == [references |-> <<>>, uniqueImages |-> <<>>]

NoArtifact ==
    [source |-> P(<<>>, "", ""),
     optimizedImage |-> [path |-> P(<<>>, "", ""), format |-> "",
                         size |-> 0]]

NoConversion ==
    [scannedFiles |-> 0, imageReferences |-> 0, uniqueImages |-> 0,
     convertedImages |-> 0, updatedFiles |-> 0, errors |-> <<>>]

\* convertCodebaseImages not yet called; no source files in sight
IdleCodebase ==
    /\ disk = [f \in {} |-> <<>>]
    /\ unreadable = {}
    /\ cpc = "idle"
    /\ thrown = ""
    /\ scanResult = NoScan
    /\ imageIdx = 0
    /\ refQueue = <<>>
    /\ artifact = NoArtifact
    /\ convErrors = <<>>
    /\ convertedImages = {}
    /\ updatedFiles = {}
    /\ convOutcome = NoConversion
    /\ edits = 0
    /\ rewriteLog = {}
    /\ userConfig = PlainConfig

\* no further instance constructed
IdleInstances ==
    /\ instances = <<>>
    /\ lastCall = [instance |-> 0, hit |-> FALSE, error |-> "",
                   result |-> NoRec, origin |-> constructor(PlainConfig)]

InitOptimizer ==
    \* the configurations a caller may pass to the batch layer; parallel 0
    \* stands for every falsy value (absent, 0)
    /\ config \in
           { constructor([PlainConfig EXCEPT !.parallel = n,
                                             !.cacheEnabled = ce]) :
               n \in 0..MaxParallel, ce \in {"absent", "true", "false"} }
    /\ IdleOptimizer
    /\ IdleCodebase
    /\ IdleInstances

Init ==
    /\ InitOptimizer
    /\ metrics = IdleMetrics
    /\ metadata = IdleMetadata
    /\ analysis = NoAnalysis
    /\ IdleExtractor

---------------------------------------------------------------------------
(* ImageOptimizer.optimizeSingle, one invocation per position k of files *)

\* lines 53-59: the synchronous prefix of optimizeSingle, up to the first
\* await: a cache hit returns the cached record, anything else suspends in
\* fs.stat
startSingle(file) ==
    LET absolutePath == resolve(file)
    IN  IF config.cacheEnabled /\ absolutePath \in DOMAIN cache
        THEN [st |-> "fulfilled", rec |-> cache[absolutePath],
              worked |-> FALSE, reason |-> ""]
        ELSE [st |-> "stat", rec |-> NoRec, worked |-> FALSE, reason |-> ""]

\* what decoding an image yields: sharp(...).raw() pixels measured by the
\* extractor, and sharp(...).metadata(); the file named a is the photo of
\* the documented example, any other raster a graphic with text and alpha
decodedMetrics(p) ==
    IF p.name = "a"
    THEN [complexity |-> 80, edgeDensity |-> 30, colorVariance |-> 50,
          noiseLevel |-> 10, textLikelihood |-> 10, photoLikelihood |-> 80]
    ELSE [complexity |-> 50, edgeDensity |-> 61, colorVariance |-> 19,
          noiseLevel |-> 10, textLikelihood |-> 61, photoLikelihood |-> 60]

decodedMetadata(p) ==
    IF p.name = "a"
    THEN [width |-> 1000, height |-> 500, hasAlpha |-> FALSE,
          isAnimated |-> "false"]
    ELSE [width |-> 300, height |-> 333, hasAlpha |-> TRUE,
          isAnimated |-> "false"]

\* lines 74-86: let formats = this.config.formats; the analysis runs only
\* when quality === 'auto', and only then may autoFormat replace the list
formatsFor(cfg, absolutePath) ==
    IF cfg.quality.auto /\ cfg.autoFormat
    THEN recommendFormats(
             [textLikelihood |-> decodedMetrics(absolutePath).textLikelihood,
              photoLikelihood |->
                  decodedMetrics(absolutePath).photoLikelihood,
              hasAlpha |-> decodedMetadata(absolutePath).hasAlpha,
              isAnimated |-> decodedMetadata(absolutePath).isAnimated])
    ELSE cfg.formats

\* generateOutputPath without a width: outputDir / basename.format
generateOutputPath(cfg, inputPath, format) ==
    [dir |-> cfg.outputDir, name |-> inputPath.name, ext |-> format]

\* one artifact per format, 'svg' among them
optimizedOf_withSvg(cfg, absolutePath) ==
    LET fmts == formatsFor(cfg, absolutePath)
    IN  [n \in 1..Len(fmts) |->
            [path |-> generateOutputPath(cfg, absolutePath, fmts[n]),
             format |-> fmts[n], size |-> encodedSize(fmts[n])]]

\* lines 88-110: one artifact per format, 'svg' skipped
optimizedOf(cfg, absolutePath) ==
    LET fmts == SelectSeq(formatsFor(cfg, absolutePath),
                          LAMBDA f : f # "svg")
    IN  [n \in 1..Len(fmts) |->
            [path |-> generateOutputPath(cfg, absolutePath, fmts[n]),
             format |-> fmts[n], size |-> encodedSize(fmts[n])]]

\* lines 136-148: the OptimizationResult of a raster (responsive variants
\* are not configured); comp is the identity of the record object
rasterResult(cfg, absolutePath, comp) ==
    [path |-> absolutePath, comp |-> comp,
     originalSize |-> fileSize(absolutePath),
     optimized |-> optimizedOf(cfg, absolutePath)]

\* optimizeSVG, lines 161-186: outputDir / basename(inputPath)
svgResult(cfg, inputPath, comp) ==
    [path |-> inputPath, comp |-> comp,
     originalSize |-> fileSize(inputPath),
     optimized |-> << [path |-> [dir |-> cfg.outputDir,
                                 name |-> inputPath.name,
                                 ext |-> inputPath.ext],
                       format |-> "svg", size |-> svgOptimizedSize] >>]

\* this.cache.set(absolutePath, result)
cacheSet(c, absolutePath, result) ==
    [p \in DOMAIN c \cup {absolutePath} |->
        IF p = absolutePath THEN result ELSE c[p]]

\* lines 61-67: fs.stat settles; a missing file rejects, an .svg goes to
\* optimizeSVG, anything else goes on to metadata, analysis and encoding
statDone(k) ==
    /\ k \in DOMAIN ops
    /\ ops[k].st = "stat"
    /\ LET absolutePath == resolve(files[k])
       IN  ops' = [ops EXCEPT ![k] =
               IF absolutePath \in MissingFiles
               THEN [@ EXCEPT !.st = "rejected", !.reason = "ENOENT"]
               ELSE IF extname(absolutePath) = "svg"
                    THEN [@ EXCEPT !.st = "svg"]
                    ELSE [@ EXCEPT !.st = "decode"]]
    /\ UNCHANGED <<config, cache, files, i, results, errors, pc, outcome,
                   work, nextComp, engineVars, codebaseVars, instanceVars>>

\* a cache write placed ahead of the decoding, so that a failing call has
\* written its entry too
decodeDone_writeFirst(k) ==
    /\ k \in DOMAIN ops
    /\ ops[k].st = "decode"
    /\ LET absolutePath == resolve(files[k])
           result == rasterResult(config, absolutePath, nextComp)
       IN  /\ cache' = IF config.cacheEnabled
                       THEN cacheSet(cache, absolutePath, result)
                       ELSE cache
           /\ nextComp' = nextComp + 1
           /\ IF absolutePath \in CorruptFiles
              THEN /\ ops' = [ops EXCEPT ![k] =
                          [@ EXCEPT !.st = "rejected", !.reason = "EDECODE"]]
                   /\ UNCHANGED work
              ELSE /\ ops' = [ops EXCEPT ![k] =
                          [@ EXCEPT !.st = "fulfilled", !.rec = result,
                                    !.worked = TRUE]]
                   /\ work' = [work EXCEPT ![absolutePath] = @ + 1]
    /\ UNCHANGED <<config, files, i, results, errors, pc, outcome,
                   engineVars, codebaseVars, instanceVars>>

\* lines 70-154: getImageMetadata, analysis, convertAndOptimize per format,
\* the record, the cache write and the return
decodeDone(k) ==
    /\ k \in DOMAIN ops
    /\ ops[k].st = "decode"
    /\ LET absolutePath == resolve(files[k])
           result == rasterResult(config, absolutePath, nextComp)
       IN  IF absolutePath \in CorruptFiles
           THEN /\ ops' = [ops EXCEPT ![k] =
                       [@ EXCEPT !.st = "rejected", !.reason = "EDECODE"]]
                /\ UNCHANGED <<cache, work, nextComp>>
           ELSE /\ ops' = [ops EXCEPT ![k] =
                       [@ EXCEPT !.st = "fulfilled", !.rec = result,
                                 !.worked = TRUE]]
                /\ work' = [work EXCEPT ![absolutePath] = @ + 1]
                /\ nextComp' = nextComp + 1
                /\ cache' = IF config.cacheEnabled
                            THEN cacheSet(cache, absolutePath, result)
                            ELSE cache
    /\ UNCHANGED <<config, files, i, results, errors, pc, outcome,
                   engineVars, codebaseVars, instanceVars>>

\* lines 160-187: optimizeSVG runs the SVG optimizer and returns its own
\* record; control never reaches the cache write of optimizeSingle
optimizeSVG(k) ==
    /\ k \in DOMAIN ops
    /\ ops[k].st = "svg"
    /\ LET inputPath == resolve(files[k])
           result == svgResult(config, inputPath, nextComp)
       IN  /\ ops' = [ops EXCEPT ![k] =
                  [@ EXCEPT !.st = "fulfilled", !.rec = result,
                            !.worked = TRUE]]
           /\ work' = [work EXCEPT ![inputPath] = @ + 1]
           /\ nextComp' = nextComp + 1
    /\ UNCHANGED <<config, cache, files, i, results, errors, pc, outcome,
                   engineVars, codebaseVars, instanceVars>>

---------------------------------------------------------------------------
(* ImageOptimizer.optimizeBatch *)

\* slice with an end one past the chunk: files.slice(i, i + parallel + 1)
slice_wide(fs, start, n) == (start + 1)..Min(start + n + 1, Len(fs))

\* Array.prototype.slice on one of its arguments: a negative index counts
\* from the end of the array, and every index is kept within 0..length
sliceIndex(len, x) == IF x < 0 THEN Max(len + x, 0) ELSE Min(x, len)

\* positions (1-based) of files.slice(start, start + n)
slice(fs, start, n) ==
    (sliceIndex(Len(fs), start) + 1)..sliceIndex(Len(fs), start + n)

\* a join that resumes as soon as one promise has settled (Promise.race)
allSettled_race(idx) == idx = {} \/ \E k \in idx : ops[k].st \in Settled

\* Promise.allSettled resolves when every promise of the chunk has settled
allSettled(idx) == \A k \in idx : ops[k].st \in Settled

\* the positions of idx in increasing order (the order of batchResults)
inOrder(idx) ==
    LET lo == CHOOSE k \in idx : \A j \in idx : k <= j
    IN  IF idx = {} THEN <<>>
        ELSE [n \in 1..Cardinality(idx) |-> lo + n - 1]

\* a join in the manner of Promise.all: one rejection loses the values of
\* the whole chunk
fulfilledOf_all(idx) ==
    LET ks == SelectSeq(inOrder(idx), LAMBDA k : ops[k].st = "fulfilled")
    IN  IF \E k \in idx : ops[k].st = "rejected" THEN <<>>
        ELSE [n \in 1..Len(ks) |-> ops[ks[n]].rec]

\* the values of a chunk taken in the order in which the operations
\* finished
fulfilledOf_byCompletion(idx) ==
    LET ks == SelectSeq(inOrder(idx), LAMBDA k : ops[k].st = "fulfilled")
    IN  SortSeq([n \in 1..Len(ks) |-> ops[ks[n]].rec],
                LAMBDA a, b : a.comp < b.comp)

\* lines 308-311: result.value of every fulfilled entry, in index order
fulfilledOf(idx) ==
    LET ks == SelectSeq(inOrder(idx), LAMBDA k : ops[k].st = "fulfilled")
    IN  [n \in 1..Len(ks) |-> ops[ks[n]].rec]

\* the first rejection of a chunk only
rejectedOf_first(idx) ==
    LET ks == SelectSeq(inOrder(idx), LAMBDA k : ops[k].st = "rejected")
    IN  [n \in 1..Min(1, Len(ks)) |-> [file |-> files[ks[n]],
                                       error |-> ops[ks[n]].reason]]

\* lines 311-316: {file: batch[index], error: reason.message} of every
\* rejected entry, in index order
rejectedOf(idx) ==
    LET ks == SelectSeq(inOrder(idx), LAMBDA k : ops[k].st = "rejected")
    IN  [n \in 1..Len(ks) |-> [file |-> files[ks[n]],
                               error |-> ops[ks[n]].reason]]

\* lines 298-302: the call
optimizeBatch(fs) ==
    /\ pc = "idle"
    /\ files' = fs
    /\ ops' = [k \in 1..Len(fs) |->
                  [st |-> "new", rec |-> NoRec, worked |-> FALSE,
                   reason |-> ""]]
    /\ i' = 0
    /\ results' = <<>>
    /\ errors' = <<>>
    /\ pc' = "loop"
    /\ UNCHANGED <<config, cache, outcome, work, nextComp, engineVars,
                   codebaseVars, instanceVars>>

\* lines 304-306: the loop test, the slice and batch.map(optimizeSingle),
\* which runs every optimizeSingle of the chunk up to its first await
dispatchChunk ==
    /\ pc = "loop"
    /\ i < Len(files)
    /\ LET batch == slice(files, i, config.parallel)
       IN  ops' = [k \in DOMAIN ops |->
                      IF k \in batch THEN startSingle(files[k]) ELSE ops[k]]
    /\ pc' = "await"
    /\ UNCHANGED <<config, cache, files, i, results, errors, outcome,
                   work, nextComp, engineVars, codebaseVars, instanceVars>>

\* every offset at or below -files.length behaves alike (the loop test
\* holds and the slice is empty): the offsets below this one are kept at it
LowestOffset == -(MaxFiles + 1)

\* lines 306-318: the await resumes, forEach collects, i += parallel
joinChunk ==
    /\ pc = "await"
    /\ LET batch == slice(files, i, config.parallel)
       IN  /\ allSettled(batch)
           /\ results' = results \o fulfilledOf(batch)
           /\ errors' = errors \o rejectedOf(batch)
    /\ i' = Max(i + config.parallel, LowestOffset)
    /\ pc' = "loop"
    /\ UNCHANGED <<config, cache, files, ops, outcome, work, nextComp,
                   engineVars, codebaseVars, instanceVars>>

RECURSIVE sumOfSizes(_)
\* reduce((s, img) => s + img.size, 0)
sumOfSizes(imgs) ==
    IF imgs = <<>> THEN 0 ELSE Head(imgs).size + sumOfSizes(Tail(imgs))

\* line 323: the average size of the primary artifacts of one record
avgSize(r) == Num(sumOfSizes(r.optimized), Len(r.optimized))

RECURSIVE totalOriginalSize(_)
\* line 321
totalOriginalSize(rs) ==
    IF rs = <<>> THEN 0
    ELSE Head(rs).originalSize + totalOriginalSize(Tail(rs))

RECURSIVE totalOptimizedSize(_)
\* lines 322-325
totalOptimizedSize(rs) ==
    IF rs = <<>> THEN Num(0, 1)
    ELSE plus(avgSize(Head(rs)), totalOptimizedSize(Tail(rs)))

\* lines 329-332: bytes = original - optimized; percentage =
\* original > 0 ? ((original - optimized) / original) * 100 : 0
totalSavings(rs) ==
    LET orig == totalOriginalSize(rs)
        opt == totalOptimizedSize(rs)
        diff == Num(orig * opt.den - opt.num, opt.den)
    IN  [bytes |-> diff,
         percentage |-> IF orig > 0
                        THEN Num(diff.num * 100, diff.den * orig)
                        ELSE Num(0, 1)]

\* lines 320-337: the loop exits and the BatchResult is returned
returnBatch ==
    /\ pc = "loop"
    /\ i >= Len(files)
    /\ outcome' = [filesProcessed |-> Len(results), results |-> results,
                   errors |-> errors, totalSavings |-> totalSavings(results)]
    /\ pc' = "done"
    /\ UNCHANGED <<config, cache, files, i, ops, results, errors, work,
                   nextComp, engineVars, codebaseVars, instanceVars>>

Next ==
    \/ \E fs \in UNION { [1..n -> InputPaths] : n \in 0..MaxFiles } :
          optimizeBatch(fs)
    \/ dispatchChunk
    \/ \E k \in DOMAIN ops : statDone(k)
    \/ \E k \in DOMAIN ops : decodeDone(k)
    \/ \E k \in DOMAIN ops : optimizeSVG(k)
    \/ joinChunk
    \/ returnBatch

Spec == Init /\ [][Next]_vars

\* batches over source files that share a base name
NextSameName ==
    \/ \E fs \in UNION { [1..n -> {P("/w", "a", "png")} \cup SameNamePaths] :
                         n \in 0..MaxFiles } :
          optimizeBatch(fs)
    \/ dispatchChunk
    \/ \E k \in DOMAIN ops : statDone(k)
    \/ \E k \in DOMAIN ops : decodeDone(k)
    \/ joinChunk
    \/ returnBatch

SpecSameName == Init /\ [][NextSameName]_vars

\* the format lists, quality modes and auto-format flags a caller may
\* configure, for batches processed one file at a time
FormatConfigs ==
    { [PlainConfig EXCEPT !.parallel = 1, !.formats = f, !.quality = q,
                          !.autoFormat = af] :
        f \in {Absent, Given(<<"svg">>), Given(<<"png", "webp">>)},
        q \in {Absent, Given(Auto), Given(Fixed(85))},
        af \in {"absent", "true", "false"} }

InitFormats ==
    /\ config \in { constructor(c) : c \in FormatConfigs }
    /\ IdleOptimizer
    /\ IdleCodebase
    /\ IdleInstances
    /\ metrics = IdleMetrics
    /\ metadata = IdleMetadata
    /\ analysis = NoAnalysis
    /\ IdleExtractor

SpecFormats == InitFormats /\ [][Next]_vars

\* every number a caller may pass as the concurrency limit: negative, 0
\* (which also stands for absent and NaN) and positive
AnyParallelConfigs ==
    { [PlainConfig EXCEPT !.parallel = n] : n \in -1..MaxParallel }

InitAnyParallel ==
    /\ config \in { constructor(c) : c \in AnyParallelConfigs }
    /\ IdleOptimizer
    /\ IdleCodebase
    /\ IdleInstances
    /\ metrics = IdleMetrics
    /\ metadata = IdleMetadata
    /\ analysis = NoAnalysis
    /\ IdleExtractor

\* every dispatched operation settles and every continuation that can run
\* does run
SpecAnyParallel == InitAnyParallel /\ [][Next]_vars /\ WF_vars(Next)

---------------------------------------------------------------------------
(* AdvancedOptimizer.analyzeAdvanced *)

\* analyzeAdvanced, lines 34-60: the decision taken from the metrics and
\* the metadata
analyzeAdvanced ==
    /\ ~analysis.done
    /\ analysis' =
         [done |-> TRUE,
          recommendedQuality |->
              calculateOptimalQuality(
                  [complexity |-> metrics.complexity,
                   edgeDensity |-> metrics.edgeDensity,
                   colorVariance |-> metrics.colorVariance,
                   noiseLevel |-> metrics.noiseLevel,
                   textLikelihood |-> metrics.textLikelihood,
                   photoLikelihood |-> metrics.photoLikelihood,
                   metadata |-> metadata]),
          recommendedFormats |->
              recommendFormats(
                  [textLikelihood |-> metrics.textLikelihood,
                   photoLikelihood |-> metrics.photoLikelihood,
                   hasAlpha |-> metadata.hasAlpha,
                   isAnimated |-> metadata.isAnimated])]
    /\ UNCHANGED <<batchVars, metrics, metadata, buffer, extracted,
                   bufferReads, codebaseVars, instanceVars>>

InitEngine ==
    /\ InitOptimizer
    /\ config = constructor(PlainConfig)
    /\ metrics \in MetricsInputs
    /\ metadata \in MetadataInputs
    /\ analysis = NoAnalysis
    /\ IdleExtractor

NextEngine == analyzeAdvanced

SpecEngine == InitEngine /\ [][NextEngine]_vars

---------------------------------------------------------------------------
(* AdvancedOptimizer: the metrics extractor.  A metric is a fraction
   Num(n, d); a division by zero leaves d = 0. *)

\* the widest and the highest pixel buffer
MaxWidth == 3

MaxHeight == 2

\* channel c of a pixel of each colour, for buffers of 1 or 2 channels
\* (grey, grey and alpha) and of 3 or 4 (RGB, RGB and alpha)
channelValue(colour, c, channels) ==
    IF c = (IF channels <= 2 THEN 1 ELSE 3) THEN 255
    ELSE IF colour = "black" THEN 0
    ELSE IF colour = "white" THEN 255
    ELSE IF channels <= 2 THEN 76
    ELSE IF c = 0 THEN 255 ELSE 0

\* sharp(imagePath).raw().toBuffer({resolveWithObject: true}): the pixels
\* row by row, the channels of a pixel side by side
Buffers ==
    UNION { { [width |-> w, height |-> h, channels |-> ch,
               data |-> [k \in 0..(w * h * ch - 1) |->
                            channelValue(img[k \div ch], k % ch, ch)]] :
                ch \in 1..4,
                img \in [0..(w * h - 1) -> {"black", "white", "red"}] } :
            w \in 1..MaxWidth, h \in 1..MaxHeight }

NaN == Num(0, 0)

\* data[k]: a Buffer read outside its length is undefined (-1 here)
read(data, k) == IF k \in DOMAIN data THEN data[k] ELSE -1

abs(x) == IF x < 0 THEN -x ELSE x

\* Math.min(x, 1)
minOne(x) ==
    IF ~defined(x) THEN x ELSE IF x.num > x.den THEN Num(1, 1) ELSE x

RECURSIVE sumOver(_)
\* the sum of the terms f[k] over the keys k of f
sumOver(f) ==
    IF DOMAIN f = {} THEN 0
    ELSE LET k == CHOOSE j \in DOMAIN f : TRUE
         IN  f[k] + sumOver([j \in DOMAIN f \ {k} |-> f[j]])

RECURSIVE isqrtIn(_, _, _)
\* the integer part of Math.sqrt(n), searched between lo and hi
isqrtIn(n, lo, hi) ==
    IF lo >= hi THEN lo
    ELSE LET mid == (lo + hi + 1) \div 2
         IN  IF mid * mid <= n THEN isqrtIn(n, mid, hi)
             ELSE isqrtIn(n, lo, mid - 1)

isqrt(n) == isqrtIn(n, 0, 46340)

\* the reads data[pixel + c] for c below count, tagged with their pixel
readsOf(pixels, count) ==
    { [index |-> px + c, pixel |-> px] : px \in pixels, c \in 0..(count - 1) }

\* calculateComplexity, lines 66-92: the reads
complexityReads(b) ==
    LET pixelCount == b.width * b.height
        sampleSize == Min(20000, pixelCount)
        step == pixelCount \div sampleSize
    IN  readsOf({ smp * step * b.channels : smp \in 0..(sampleSize - 2) }
                    \cup { (smp + 1) * step * b.channels :
                               smp \in 0..(sampleSize - 2) },
                Min(3, b.channels))

\* calculateComplexity, lines 66-92
calculateComplexity(b) ==
    LET pixelCount == b.width * b.height
        sampleSize == Min(20000, pixelCount)
        step == pixelCount \div sampleSize
        pairs == (0..(sampleSize - 2)) \X (0..(Min(3, b.channels) - 1))
        diff(p) == abs(read(b.data, p[1] * step * b.channels + p[2])
                       - read(b.data,
                              (p[1] + 1) * step * b.channels + p[2]))
        totalVariation == sumOver([p \in pairs |-> diff(p)])
        highFreqCount == Cardinality({ p \in pairs : diff(p) > 50 })
    IN  IF \E r \in complexityReads(b) : read(b.data, r.index) < 0
        THEN NaN
        ELSE minOne(Num(totalVariation + 255 * highFreqCount,
                        2 * sampleSize * 255 * 3))

\* calculateEdgeDensity, lines 97-122: the reads
edgeDensityReads(b) ==
    LET sampleRows == Min(100, b.height - 1)
    IN  readsOf({ ((row * (b.height \div sampleRows)) * b.width + x)
                      * b.channels :
                      row \in 0..(sampleRows - 1), x \in 0..(b.width - 1) },
                IF b.width > 1 THEN Min(3, b.channels) ELSE 0)

\* calculateEdgeDensity, lines 97-122: with no sampled row the loop does
\* not run and the result is 0 / 0; a difference that is not a number is
\* not above the threshold
calculateEdgeDensity(b) ==
    LET sampleRows == Min(100, b.height - 1)
        cs == 0..(Min(3, b.channels) - 1)
        at1(row, x) ==
            ((row * (b.height \div sampleRows)) * b.width + x) * b.channels
        diff(row, x) ==
            sumOver([c \in cs |->
                abs(read(b.data, at1(row, x) + c)
                    - read(b.data, at1(row, x + 1) + c))])
        isNumber(row, x) ==
            \A c \in cs : /\ read(b.data, at1(row, x) + c) >= 0
                          /\ read(b.data, at1(row, x + 1) + c) >= 0
        edgePixels ==
            Cardinality({ p \in (0..(sampleRows - 1)) \X (0..(b.width - 2)) :
                            isNumber(p[1], p[2]) /\ diff(p[1], p[2]) > 25 })
    IN  minOne(Num(edgePixels, sampleRows * b.width))

\* the pixels sampled at a fixed stride, sampleSize of them
sampledPixels(b, cap) ==
    LET pixelCount == b.width * b.height
        sampleSize == Min(cap, pixelCount)
        step == pixelCount \div sampleSize
    IN  { smp * step * b.channels : smp \in 0..(sampleSize - 1) }

\* lines 138-139 and 197: data[idx] + data[idx + 1] + data[idx + 2],
\* not a number (-1 here) when one of the three is undefined
graySum(b, idx) ==
    IF \E c \in 0..2 : read(b.data, idx + c) < 0 THEN -1
    ELSE read(b.data, idx) + read(b.data, idx + 1) + read(b.data, idx + 2)

\* calculateColorVariance, lines 127-150: the reads
colorVarianceReads(b) == readsOf(sampledPixels(b, 10000), 3)

\* calculateColorVariance, lines 127-150: histogram[NaN]++ touches no
\* element of the histogram, so a sample that is not a number counts in
\* sampleSize only; the square root is taken down to its integer part over
\* the common denominator
calculateColorVariance(b) ==
    LET sampleSize == Min(10000, b.width * b.height)
        valid == { idx \in sampledPixels(b, 10000) : graySum(b, idx) >= 0 }
        gray(idx) == graySum(b, idx) \div 3
        total == sumOver([idx \in valid |-> gray(idx)])
        squares == sumOver([idx \in valid |->
                       (sampleSize * gray(idx) - total)
                           * (sampleSize * gray(idx) - total)])
    IN  minOne(Num(isqrt(squares * sampleSize),
                   128 * sampleSize * sampleSize))

\* calculateNoiseLevel, lines 155-177: the reads
noiseLevelReads(b) ==
    LET sampleSize == Min(5000, b.width * b.height)
        step == (b.width * b.height) \div sampleSize
    IN  readsOf({ j * step * b.channels :
                      j \in { smp + d : smp \in 1..(sampleSize - 2),
                                      d \in {-1, 0, 1} } },
                Min(3, b.channels))

\* calculateNoiseLevel, lines 155-177
calculateNoiseLevel(b) ==
    LET sampleSize == Min(5000, b.width * b.height)
        step == (b.width * b.height) \div sampleSize
        pairs == (1..(sampleSize - 2)) \X (0..(Min(3, b.channels) - 1))
        twice(p) ==
            abs(2 * read(b.data, p[1] * step * b.channels + p[2])
                - read(b.data, (p[1] - 1) * step * b.channels + p[2])
                - read(b.data, (p[1] + 1) * step * b.channels + p[2]))
    IN  IF \E r \in noiseLevelReads(b) : read(b.data, r.index) < 0
        THEN NaN
        ELSE minOne(Num(sumOver([p \in pairs |-> twice(p)]),
                        2 * sampleSize * 255 * 3))

\* detectTextLikelihood, lines 182-207: the reads
textLikelihoodReads(b) == readsOf(sampledPixels(b, 5000), 3)

\* detectTextLikelihood, lines 182-207: gray < 50 || gray > 205 on
\* gray = sum / 3; edgeDensity * 0.6 + contrastRatio * 0.4
detectTextLikelihood(b, edgeDensity) ==
    LET sampleSize == Min(5000, b.width * b.height)
        highContrastRegions ==
            Cardinality({ idx \in sampledPixels(b, 5000) :
                            /\ graySum(b, idx) >= 0
                            /\ \/ graySum(b, idx) < 150
                               \/ graySum(b, idx) > 615 })
    IN  minOne(Num(6 * edgeDensity.num * sampleSize
                       + 4 * highContrastRegions * edgeDensity.den,
                   10 * edgeDensity.den * sampleSize))

\* a defined metric in ten-thousandths, rounded down
tenThousandths(x) == (x.num * 10000) \div x.den

\* detectPhotoLikelihood, lines 212-215:
\* complexity * 0.5 + colorVariance * 0.3 + noiseLevel * 0.2
detectPhotoLikelihood(complexity, colorVariance, noiseLevel) ==
    IF ~defined(complexity) \/ ~defined(colorVariance)
           \/ ~defined(noiseLevel)
    THEN NaN
    ELSE minOne(Num(5 * tenThousandths(complexity)
                        + 3 * tenThousandths(colorVariance)
                        + 2 * tenThousandths(noiseLevel), 100000))

\* analyzeAdvanced, lines 25-32: the six metrics of the decoded buffer
extractMetrics ==
    /\ ~extracted.done
    /\ LET complexity == calculateComplexity(buffer)
           edgeDensity == calculateEdgeDensity(buffer)
           colorVariance == calculateColorVariance(buffer)
           noiseLevel == calculateNoiseLevel(buffer)
       IN  extracted' =
               [done |-> TRUE, complexity |-> complexity,
                edgeDensity |-> edgeDensity,
                colorVariance |-> colorVariance,
                noiseLevel |-> noiseLevel,
                textLikelihood |->
                    detectTextLikelihood(buffer, edgeDensity),
                photoLikelihood |->
                    detectPhotoLikelihood(complexity, colorVariance,
                                          noiseLevel)]
    /\ bufferReads' =
           complexityReads(buffer) \cup edgeDensityReads(buffer)
               \cup colorVarianceReads(buffer) \cup noiseLevelReads(buffer)
               \cup textLikelihoodReads(buffer)
    /\ UNCHANGED <<batchVars, metrics, metadata, analysis, buffer,
                   codebaseVars, instanceVars>>

InitExtractor ==
    /\ config = constructor(PlainConfig)
    /\ IdleOptimizer
    /\ IdleCodebase
    /\ IdleInstances
    /\ metrics = IdleMetrics
    /\ metadata = IdleMetadata
    /\ analysis = NoAnalysis
    /\ buffer \in Buffers
    /\ extracted = NoExtracted
    /\ bufferReads = {}

NextExtractor == extractMetrics

SpecExtractor == InitExtractor /\ [][NextExtractor]_vars

---------------------------------------------------------------------------
(* CodebaseScanner (codebase-scanner.ts).  A line of a source file is a
   sequence of atoms: keywords, punctuation, quotes, blanks, names and
   dotted extensions.  ".." is two "." atoms, so that the text "./img.png"
   occurs inside "../img.png" as it does character by character. *)

\* [Q] in the patterns below: a single quote, a double quote or a
\* backquote (the atom "bq")
Quotes == {"'", "\"", "bq"}

\* config.imageExtensions, each with the dot that the patterns put first
ImageExtAtoms ==
    {".jpg", ".jpeg", ".png", ".gif", ".webp", ".avif", ".svg"}

\* "." + format, and the extension without its dot
dotted(e) ==
    IF e = "png" THEN ".png" ELSE IF e = "webp" THEN ".webp"
    ELSE IF e = "avif" THEN ".avif" ELSE IF e = "jpeg" THEN ".jpeg"
    ELSE IF e = "gif" THEN ".gif" ELSE IF e = "svg" THEN ".svg"
    ELSE IF e = "js" THEN ".js" ELSE IF e = "css" THEN ".css"
    ELSE ".jpg"

undot(a) ==
    IF a = ".png" THEN "png" ELSE IF a = ".webp" THEN "webp"
    ELSE IF a = ".avif" THEN "avif" ELSE IF a = ".jpeg" THEN "jpeg"
    ELSE IF a = ".gif" THEN "gif" ELSE IF a = ".svg" THEN "svg"
    ELSE IF a = ".js" THEN "js" ELSE IF a = ".css" THEN "css"
    ELSE "jpg"

\* line[s], or the empty atom past the end of the line
at(l, s) == IF s \in DOMAIN l THEN l[s] ELSE ""

RECURSIVE skipSpaces(_, _)
\* \s* : the first position from s on that holds no blank
skipSpaces(l, s) == IF at(l, s) = " " THEN skipSpaces(l, s + 1) ELSE s

RECURSIVE runEnd(_, _, _)
\* [^...]+ : the last position of the longest run from s on of atoms that
\* are not in stop (s - 1 when the run is empty)
runEnd(l, s, stop) ==
    IF s \in DOMAIN l /\ l[s] \notin stop THEN runEnd(l, s + 1, stop)
    ELSE s - 1

\* an optional atom of the set opt at position s: the position after it
optional(l, s, opt) == IF at(l, s) \in opt THEN s + 1 ELSE s

RECURSIVE lastExt(_, _, _)
\* backtracking of a greedy group: the last position in from..to that
\* holds an image extension
lastExt(l, from, to) ==
    IF to < from THEN from - 1
    ELSE IF l[to] \in ImageExtAtoms THEN to ELSE lastExt(l, from, to - 1)

NoMatch == [ok |-> FALSE, path |-> <<>>, next |-> 0]

\* a group from..to that is a path: something, then an image extension
group(l, from, to, next) ==
    IF to > from /\ l[to] \in ImageExtAtoms
    THEN [ok |-> TRUE, path |-> SubSeq(l, from, to), next |-> next]
    ELSE NoMatch

\* (?:import|require)\s*\(?[Q]([^Q]+\.(?:ext))[Q]\)?
matchImport(l, s) ==
    LET q == optional(l, skipSpaces(l, s + 1), {"("})
        e == runEnd(l, q + 1, Quotes)
    IN  IF at(l, s) \in {"import", "require"} /\ at(l, q) \in Quotes
           /\ at(l, e + 1) \in Quotes
        THEN group(l, q + 1, e, optional(l, e + 2, {")"}))
        ELSE NoMatch

\* src\s*=\s*[Q]([^Q]+\.(?:ext))[Q]
matchSrc(l, s) ==
    LET eq == skipSpaces(l, s + 1)
        q == skipSpaces(l, eq + 1)
        e == runEnd(l, q + 1, Quotes)
    IN  IF at(l, s) = "src" /\ at(l, eq) = "=" /\ at(l, q) \in Quotes
           /\ at(l, e + 1) \in Quotes
        THEN group(l, q + 1, e, e + 2)
        ELSE NoMatch

\* url\s*\([Q]?([^Q)]+\.(?:ext))[Q]?\)
matchUrl(l, s) ==
    LET par == skipSpaces(l, s + 1)
        g == optional(l, par + 1, Quotes)
        e == runEnd(l, g, Quotes \cup {")"})
        close == optional(l, e + 1, Quotes)
    IN  IF at(l, s) = "url" /\ at(l, par) = "(" /\ at(l, close) = ")"
        THEN group(l, g, e, close + 1)
        ELSE NoMatch

\* background(?:Image)?\s*:\s*[Q]?url\([Q]?([^Q)]+\.(?:ext))
matchBackground(l, s) ==
    LET col == skipSpaces(l, s + 1)
        u == optional(l, skipSpaces(l, col + 1), Quotes)
        g == optional(l, u + 2, Quotes)
        e == lastExt(l, g, runEnd(l, g, Quotes \cup {")"}))
    IN  IF at(l, s) \in {"background", "backgroundImage"}
           /\ at(l, col) = ":" /\ at(l, u) = "url" /\ at(l, u + 1) = "("
        THEN group(l, g, e, e + 1)
        ELSE NoMatch

\* the four pattern classes, in the order of the patterns array
PatternTypes == <<"import", "src", "url", "background">>

matchAt(type, l, s) ==
    IF type = "import" THEN matchImport(l, s)
    ELSE IF type = "src" THEN matchSrc(l, s)
    ELSE IF type = "url" THEN matchUrl(l, s)
    ELSE matchBackground(l, s)

\* a single regex.exec(line): the first match of the pattern only
execAll_once(type, l, s) ==
    LET starts == { k \in s..Len(l) : matchAt(type, l, k).ok }
    IN  IF starts = {} THEN <<>>
        ELSE <<matchAt(type, l,
                       CHOOSE k \in starts :
                           \A j \in starts : k <= j).path>>

RECURSIVE execAll(_, _, _)
\* while ((match = regexCopy.exec(line)) !== null): every match of one
\* pattern on a line, left to right, each search resuming after the last
execAll(type, l, s) ==
    IF s > Len(l) THEN <<>>
    ELSE LET m == matchAt(type, l, s)
         IN  IF m.ok THEN <<m.path>> \o execAll(type, l, m.next)
             ELSE execAll(type, l, s + 1)

RECURSIVE trimLeft(_)
trimLeft(l) ==
    IF l # <<>> /\ Head(l) = " " THEN trimLeft(Tail(l)) ELSE l

RECURSIVE trimRight(_)
trimRight(l) ==
    IF l # <<>> /\ l[Len(l)] = " " THEN trimRight(SubSeq(l, 1, Len(l) - 1))
    ELSE l

\* String.prototype.trim
trim(l) == trimRight(trimLeft(l))

RECURSIVE concatAll(_)
\* references.push(...) of every element of a list of lists
concatAll(ss) == IF ss = <<>> THEN <<>> ELSE Head(ss) \o concatAll(Tail(ss))

\* lines 375-388: the references of line number n of a file
referencesOfLine(filePath, l, n) ==
    concatAll(
        [t \in 1..Len(PatternTypes) |->
            LET ms == execAll(PatternTypes[t], l, 1)
            IN  [k \in 1..Len(ms) |->
                    [filePath |-> filePath, imagePath |-> ms[k],
                     lineNumber |-> n, lineContent |-> trim(l),
                     type |-> PatternTypes[t]]]])

\* extractImageReferences: content is the list of lines, that is
\* content.split('\n')
extractImageReferences(filePath, content) ==
    concatAll([n \in 1..Len(content) |->
                  referencesOfLine(filePath, content[n], n)])

RECURSIVE firstIndexOf(_, _, _)
\* String.prototype.indexOf: the first position from s on at which pat
\* occurs in l, 0 when there is none
firstIndexOf(l, pat, s) ==
    IF s + Len(pat) - 1 > Len(l) THEN 0
    ELSE IF SubSeq(l, s, s + Len(pat) - 1) = pat THEN s
    ELSE firstIndexOf(l, pat, s + 1)

\* String.prototype.replace that also drops what follows the match
replaceFirst_truncating(l, pat, new) ==
    LET s == firstIndexOf(l, pat, 1)
    IN  IF s = 0 THEN l ELSE SubSeq(l, 1, s - 1) \o new

\* String.prototype.replace with a string pattern: the first occurrence
\* is replaced, a line without an occurrence is returned as it is (the
\* replacement holds no "$" pattern)
replaceFirst(l, pat, new) ==
    LET s == firstIndexOf(l, pat, 1)
    IN  IF s = 0 THEN l
        ELSE SubSeq(l, 1, s - 1) \o new
                 \o SubSeq(l, s + Len(pat), Len(l))

RECURSIVE splitSegments(_)
\* a path split at its "/" atoms
splitSegments(a) ==
    IF a = <<>> THEN << <<>> >>
    ELSE LET rest == splitSegments(Tail(a))
         IN  IF Head(a) = "/" THEN << <<>> >> \o rest
             ELSE << <<Head(a)>> \o Head(rest) >> \o Tail(rest)

RECURSIVE walk(_, _)
\* path.resolve over directory segments: "." stays, ".." goes up, an
\* empty segment is skipped, a name goes down
walk(dir, segs) ==
    IF segs = <<>> THEN dir
    ELSE LET seg == Head(segs)
         IN  IF seg = <<>> \/ seg = <<".">> THEN walk(dir, Tail(segs))
             ELSE IF seg = <<".", ".">>
                  THEN walk(IF dir = <<>> THEN dir
                            ELSE SubSeq(dir, 1, Len(dir) - 1), Tail(segs))
                  ELSE walk(Append(dir, seg[1]), Tail(segs))

\* path.resolve(dir, raw): raw is relative to dir unless it starts with "/"
pathResolve(dir, raw) ==
    LET segs == splitSegments(raw)
        last == segs[Len(segs)]
    IN  P(walk(IF Head(raw) = "/" THEN <<>> ELSE dir,
               SubSeq(segs, 1, Len(segs) - 1)),
          last[1], undot(last[Len(last)]))

RECURSIVE commonPrefix(_, _)
commonPrefix(a, b) ==
    IF a # <<>> /\ b # <<>> /\ Head(a) = Head(b)
    THEN 1 + commonPrefix(Tail(a), Tail(b)) ELSE 0

RECURSIVE ups(_)
ups(n) == IF n = 0 THEN <<>> ELSE <<".", ".", "/">> \o ups(n - 1)

RECURSIVE downs(_)
downs(segs) ==
    IF segs = <<>> THEN <<>> ELSE <<Head(segs), "/">> \o downs(Tail(segs))

\* path.relative(from, to) for a directory from and a file to
pathRelative(from, to) ==
    LET c == commonPrefix(from, to.dir)
    IN  ups(Len(from) - c) \o downs(SubSeq(to.dir, c + 1, Len(to.dir)))
            \o <<to.name, dotted(to.ext)>>

\* an absolute path as the string the program holds
pathString(p) == <<"/">> \o downs(p.dir) \o <<p.name, dotted(p.ext)>>

\* resolveImagePath: path.resolve(path.dirname(filePath), imagePath)
resolveImagePath(reference) ==
    pathResolve(reference.filePath.dir, reference.imagePath)

---------------------------------------------------------------------------
(* ImageOptimizer.convertCodebaseImages *)

\* the longest source file, in lines
MaxLines == 2

\* the number of edits other programs make to the source files during a run
MaxEdits == 1

SrcA == <<"w", "src", "a">>

SrcB == <<"w", "src", "b">>

OutDir == <<"w", "out">>

FileX == P(SrcA, "x", "js")

FileY == P(SrcB, "y", "css")

\* the images on disk: src/a/img.png, src/b/img.png, the vector image
\* src/a/logo.svg and the undecodable src/a/bad.png; src/b/gone.png is
\* referenced but does not exist
SourceImages == {P(SrcA, "img", "png"), P(SrcB, "img", "png"),
                 P(SrcA, "bad", "png"), P(SrcA, "logo", "svg")}

CorruptImages == {P(SrcA, "bad", "png")}

LImport == <<"import", " ", "'", ".", "/", "img", ".png", "'">>

LBackground ==
    <<"background", ":", " ", "url", "(", ".", "/", "img", ".png", ")">>

\* the files of at most MaxLines lines drawn from a set of lines
Contents(lines) == UNION { [1..n -> lines] : n \in 1..MaxLines }

\* the configurations of a conversion run: rewrite requested or not, scan
\* root given or not
ConversionConfigs ==
    { [PlainConfig EXCEPT !.outputDir = OutDir, !.updateCodebase = u,
                          !.codebaseRoot = r] :
        u \in {"absent", "true"}, r \in {Absent, Given(<<"w", "src">>)} }

InitCodebase ==
    /\ userConfig \in ConversionConfigs
    /\ config = constructor(userConfig)
    /\ IdleOptimizer
    /\ metrics = IdleMetrics
    /\ metadata = IdleMetadata
    /\ analysis = NoAnalysis
    /\ IdleExtractor
    /\ IdleInstances
    /\ \E x \in Contents({LImport, LBackground,
                           <<"src", "=", "\"", ".", "/", "bad", ".png",
                             "\"">>}),
          y \in Contents({LImport,
                          <<"src", "=", "\"", ".", "/", "gone", ".png",
                            "\"">>}) :
          disk = [f \in {FileX, FileY} |-> IF f = FileX THEN x ELSE y]
    /\ unreadable \in {{}, {FileY}}
    /\ cpc = "idle"
    /\ thrown = ""
    /\ scanResult = NoScan
    /\ imageIdx = 0
    /\ refQueue = <<>>
    /\ artifact = NoArtifact
    /\ convErrors = <<>>
    /\ convertedImages = {}
    /\ updatedFiles = {}
    /\ convOutcome = NoConversion
    /\ edits = 0
    /\ rewriteLog = {}

\* optimizeSingle, lines 54-154, as one awaited call: the cache lookup, the
\* stat, the SVG branch, the decode and the cache write
optimizeSingle(cfg, c, absolutePath, missing, corrupt, comp) ==
    IF cfg.cacheEnabled /\ absolutePath \in DOMAIN c
    THEN [error |-> "", hit |-> TRUE, result |-> c[absolutePath],
          cache |-> c]
    ELSE IF absolutePath \in missing
    THEN [error |-> "ENOENT", hit |-> FALSE, result |-> NoRec, cache |-> c]
    ELSE IF extname(absolutePath) = "svg"
    THEN [error |-> "", hit |-> FALSE,
          result |-> svgResult(cfg, absolutePath, comp), cache |-> c]
    ELSE IF absolutePath \in corrupt
    THEN [error |-> "EDECODE", hit |-> FALSE, result |-> NoRec,
          cache |-> c]
    ELSE LET result == rasterResult(cfg, absolutePath, comp)
         IN  [error |-> "", hit |-> FALSE, result |-> result,
              cache |-> IF cfg.cacheEnabled
                        THEN cacheSet(c, absolutePath, result) ELSE c]

\* getCodeFiles: the source files below rootDir that the include patterns
\* find, in the order glob lists them
getCodeFiles(rootDir) ==
    SelectSeq(<<FileX, FileY>>,
              LAMBDA f : commonPrefix(rootDir, f.dir) = Len(rootDir))

RECURSIVE insertionOrder(_, _)
\* uniqueImages.add(ref.imagePath) over the references: a Set keeps the
\* order of first insertion
insertionOrder(refs, seen) ==
    IF refs = <<>> THEN <<>>
    ELSE IF Head(refs).imagePath \in seen
         THEN insertionOrder(Tail(refs), seen)
         ELSE <<Head(refs).imagePath>>
                  \o insertionOrder(Tail(refs),
                                    seen \cup {Head(refs).imagePath})

ConfigError == "updateCodebase must be enabled in config"

\* the call without its guard: the scan starts whatever the configuration
convertCodebaseImages_unguarded ==
    /\ cpc = "idle"
    /\ cpc' = "scan"
    /\ UNCHANGED <<batchVars, engineVars, instanceVars, disk, unreadable,
                   thrown, scanResult, imageIdx, refQueue, artifact,
                   convErrors, convertedImages, updatedFiles, convOutcome,
                   edits, rewriteLog, userConfig>>

\* lines 342-345: the call and its guard
convertCodebaseImages ==
    /\ cpc = "idle"
    /\ IF ~config.updateCodebase
       THEN cpc' = "threw" /\ thrown' = ConfigError
       ELSE cpc' = "scan" /\ UNCHANGED thrown
    /\ UNCHANGED <<batchVars, engineVars, instanceVars, disk, unreadable,
                   scanResult, imageIdx, refQueue, artifact, convErrors,
                   convertedImages, updatedFiles, convOutcome, edits,
                   rewriteLog, userConfig>>

\* scanner.scan(), lines 288-315, awaited outside any try block: a
\* readFile that rejects rejects the scan and with it the whole call
scan ==
    /\ cpc = "scan"
    /\ LET fs == getCodeFiles(config.codebaseRoot)
           references ==
               concatAll([n \in 1..Len(fs) |->
                             extractImageReferences(fs[n], disk[fs[n]])])
       IN  IF \E n \in 1..Len(fs) : fs[n] \in unreadable
           THEN /\ cpc' = "threw"
                /\ thrown' = "EACCES"
                /\ UNCHANGED <<scanResult, imageIdx>>
           ELSE /\ cpc' = "loop"
                /\ scanResult' =
                       [references |-> references,
                        uniqueImages |-> insertionOrder(references, {})]
                /\ imageIdx' = 1
                /\ UNCHANGED thrown
    /\ UNCHANGED <<batchVars, engineVars, instanceVars, disk, unreadable,
                   refQueue, artifact, convErrors, convertedImages,
                   updatedFiles, convOutcome, edits, rewriteLog,
                   userConfig>>

\* line 361: scanResult.references.filter(ref => ref.imagePath === imagePath)
refsOf(references, imagePath) ==
    SelectSeq(references, LAMBDA ref : ref.imagePath = imagePath)

\* lines 358-379 and 399-405: one iteration of the loop over uniqueImages
\* up to the loop over the references
processImage ==
    /\ cpc = "loop"
    /\ imageIdx \in DOMAIN scanResult.uniqueImages
    /\ LET imagePath == scanResult.uniqueImages[imageIdx]
           refs == refsOf(scanResult.references, imagePath)
           absolutePath == resolveImagePath(refs[1])
           call == optimizeSingle(config, cache, absolutePath, {},
                                  CorruptImages, nextComp)
       IN  IF absolutePath \notin SourceImages
           THEN /\ imageIdx' = imageIdx + 1
                /\ UNCHANGED <<cpc, cache, nextComp, refQueue, artifact,
                               convErrors>>
           ELSE IF call.error # ""
           THEN /\ convErrors' =
                       Append(convErrors,
                              [file |-> imagePath, error |-> call.error])
                /\ imageIdx' = imageIdx + 1
                /\ UNCHANGED <<cpc, cache, nextComp, refQueue, artifact>>
           ELSE /\ cache' = call.cache
                /\ nextComp' = IF call.hit THEN nextComp ELSE nextComp + 1
                /\ IF call.result.optimized = <<>>
                   THEN /\ imageIdx' = imageIdx + 1
                        /\ UNCHANGED <<cpc, refQueue, artifact>>
                   ELSE /\ cpc' = "rewrite"
                        /\ refQueue' = refs
                        /\ artifact' =
                               [source |-> call.result.path,
                                optimizedImage |->
                                    call.result.optimized[1]]
                        /\ UNCHANGED imageIdx
                /\ UNCHANGED convErrors
    /\ UNCHANGED <<config, files, i, ops, results, errors, pc, outcome,
                   work, engineVars, instanceVars, disk, unreadable,
                   thrown, scanResult, convertedImages, updatedFiles,
                   convOutcome, edits, rewriteLog, userConfig>>

\* replaceImageReference, lines 394-407, on the files d: the file is read,
\* split into lines, the recorded line replaced and the file written; a
\* line number past the end of the file makes oldLine undefined and
\* oldLine.replace throw a TypeError before anything is written
replaceImageReference(d, reference, newImagePath) ==
    LET lines == d[reference.filePath]
    IN  IF reference.lineNumber \notin DOMAIN lines
        THEN [error |-> "TypeError", disk |-> d]
        ELSE [error |-> "",
              disk |-> [d EXCEPT ![reference.filePath] =
                           [lines EXCEPT ![reference.lineNumber] =
                               replaceFirst(@, reference.imagePath,
                                            newImagePath)]]]

\* lines 383-395: one iteration of the loop over the references
rewriteReference ==
    /\ cpc = "rewrite"
    /\ refQueue # <<>>
    /\ LET ref == Head(refQueue)
           newRelativePath ==
               pathRelative(ref.filePath.dir, artifact.optimizedImage.path)
           r == replaceImageReference(disk, ref, newRelativePath)
       IN  /\ disk' = r.disk
           /\ IF r.error = ""
              THEN /\ updatedFiles' = updatedFiles \cup {ref.filePath}
                   /\ UNCHANGED convErrors
              ELSE /\ convErrors' =
                          Append(convErrors,
                                 [file |-> pathString(ref.filePath),
                                  error |-> r.error])
                   /\ UNCHANGED updatedFiles
           /\ rewriteLog' = rewriteLog \cup
                  {[reference |-> ref, source |-> artifact.source,
                    changed |-> r.disk # disk]}
    /\ refQueue' = Tail(refQueue)
    /\ UNCHANGED <<batchVars, engineVars, instanceVars, unreadable, cpc,
                   thrown, scanResult, imageIdx, artifact, convertedImages,
                   convOutcome, edits, userConfig>>

\* line 397: convertedImages.add(imagePath) after the last reference
finishImage ==
    /\ cpc = "rewrite"
    /\ refQueue = <<>>
    /\ convertedImages' =
           convertedImages \cup {scanResult.uniqueImages[imageIdx]}
    /\ imageIdx' = imageIdx + 1
    /\ cpc' = "loop"
    /\ UNCHANGED <<batchVars, engineVars, instanceVars, disk, unreadable,
                   thrown, scanResult, refQueue, artifact, convErrors,
                   updatedFiles, convOutcome, edits, rewriteLog,
                   userConfig>>

\* lines 407-414: the CodebaseConversionResult
returnConversion ==
    /\ cpc = "loop"
    /\ imageIdx > Len(scanResult.uniqueImages)
    /\ convOutcome' =
           [scannedFiles |-> Len(scanResult.references),
            imageReferences |-> Len(scanResult.references),
            uniqueImages |-> Len(scanResult.uniqueImages),
            convertedImages |-> Cardinality(convertedImages),
            updatedFiles |-> Cardinality(updatedFiles),
            errors |-> convErrors]
    /\ cpc' = "done"
    /\ UNCHANGED <<batchVars, engineVars, instanceVars, disk, unreadable,
                   thrown, scanResult, imageIdx, refQueue, artifact,
                   convErrors, convertedImages, updatedFiles, edits,
                   rewriteLog, userConfig>>

\* another program saves a source file during the run, its first line
\* removed; the save falls between two steps of the run, never between
\* the read and the write of one replaceImageReference
externalEdit(f) ==
    /\ cpc \in {"scan", "loop", "rewrite"}
    /\ edits < MaxEdits
    /\ f \in DOMAIN disk
    /\ disk' = [disk EXCEPT ![f] = IF Len(@) = 1 THEN << <<>> >>
                                   ELSE Tail(@)]
    /\ edits' = edits + 1
    /\ UNCHANGED <<batchVars, engineVars, instanceVars, unreadable, cpc,
                   thrown, scanResult, imageIdx, refQueue, artifact,
                   convErrors, convertedImages, updatedFiles, convOutcome,
                   rewriteLog, userConfig>>

NextCodebase ==
    \/ convertCodebaseImages
    \/ scan
    \/ processImage
    \/ rewriteReference
    \/ finishImage
    \/ returnConversion
    \/ \E f \in DOMAIN disk : externalEdit(f)

SpecCodebase == InitCodebase /\ [][NextCodebase]_vars

\* conversion runs with the rewrite enabled and a format list of the
\* default, of png first, or of svg first
RewriteConfigs ==
    { [PlainConfig EXCEPT !.outputDir = OutDir, !.updateCodebase = "true",
                          !.codebaseRoot = Given(<<"w", "src">>),
                          !.formats = f] :
        f \in {Absent, Given(<<"png", "webp">>), Given(<<"svg", "webp">>)} }

\* x.js holds the import, a style rule that names the image beside it
\* without "./" (the url and the background patterns both match it), or a
\* reference to the vector image
InitRewrite ==
    /\ userConfig \in RewriteConfigs
    /\ config = constructor(userConfig)
    /\ IdleOptimizer
    /\ metrics = IdleMetrics
    /\ metadata = IdleMetadata
    /\ analysis = NoAnalysis
    /\ IdleExtractor
    /\ IdleInstances
    /\ \E x \in Contents({LImport,
                           <<"background", ":", " ", "url", "(", "img",
                             ".png", ")">>,
                           <<"src", "=", "\"", ".", "/", "logo", ".svg",
                             "\"">>}),
          y \in Contents({LImport}) :
          disk = [f \in {FileX, FileY} |-> IF f = FileX THEN x ELSE y]
    /\ unreadable = {}
    /\ cpc = "idle"
    /\ thrown = ""
    /\ scanResult = NoScan
    /\ imageIdx = 0
    /\ refQueue = <<>>
    /\ artifact = NoArtifact
    /\ convErrors = <<>>
    /\ convertedImages = {}
    /\ updatedFiles = {}
    /\ convOutcome = NoConversion
    /\ edits = 0
    /\ rewriteLog = {}

SpecRewrite == InitRewrite /\ [][NextCodebase]_vars

---------------------------------------------------------------------------
(* CodebaseScanner.scan on its own *)

\* new CodebaseScanner({rootDir}).scan() about to run over two files
InitScanner ==
    /\ userConfig = [PlainConfig EXCEPT !.outputDir = OutDir,
                                        !.updateCodebase = "true"]
    /\ config = constructor(userConfig)
    /\ IdleOptimizer
    /\ metrics = IdleMetrics
    /\ metadata = IdleMetadata
    /\ analysis = NoAnalysis
    /\ IdleExtractor
    /\ IdleInstances
    /\ \E x \in Contents({LImport,
                           <<"src", "=", "\"", ".", "/", "img", ".png", "\"",
                             " ", "src", "=", "\"", ".", "/", "bad", ".png",
                             "\"">>,
                           <<"require", "(", "'", ".", "/", "img", ".png",
                             "'", ")">>,
                           <<"import", " ", "x", " ", "from", " ", "'", ".",
                             "/", "img", ".png", "'">>}),
          y \in Contents({LBackground,
                          <<"background", ":", "url", "(", "img", ".png",
                            "?", "v", ")">>,
                          <<"const", " ", "x", " ", "=", " ", "1">>}) :
          disk = [f \in {FileX, FileY} |-> IF f = FileX THEN x ELSE y]
    /\ unreadable \in {{}, {FileY}}
    /\ cpc = "scan"
    /\ thrown = ""
    /\ scanResult = NoScan
    /\ imageIdx = 0
    /\ refQueue = <<>>
    /\ artifact = NoArtifact
    /\ convErrors = <<>>
    /\ convertedImages = {}
    /\ updatedFiles = {}
    /\ convOutcome = NoConversion
    /\ edits = 0
    /\ rewriteLog = {}

SpecScanner == InitScanner /\ [][scan]_vars

---------------------------------------------------------------------------
(* Several ImageOptimizer instances *)

\* the number of instances constructed
MaxInstances == 2

\* the configurations the instances are constructed with
InstanceConfigs ==
    { [PlainConfig EXCEPT !.formats = f, !.quality = q] :
        f \in {Absent, Given(<<"png">>)},
        q \in {Absent, Given(Fixed(85))} }

InitInstances ==
    /\ config = constructor(PlainConfig)
    /\ IdleOptimizer
    /\ IdleCodebase
    /\ IdleInstances
    /\ metrics = IdleMetrics
    /\ metadata = IdleMetadata
    /\ analysis = NoAnalysis
    /\ IdleExtractor

\* a cache that belongs to the class: every instance uses the map of the
\* first
cacheOwner_static(n) == 1

\* line 24, private cache, set to a new Map by the constructor: the map
\* instance n reads and writes is its own
cacheOwner(n) == n

\* new ImageOptimizer(c), lines 26-47; origin is history: the
\* configuration under which each entry of the map was computed
newImageOptimizer(c) ==
    /\ Len(instances) < MaxInstances
    /\ instances' = Append(instances,
                           [config |-> constructor(c),
                            cache |-> [p \in {} |-> NoRec],
                            origin |-> [p \in {} |-> constructor(c)]])
    /\ UNCHANGED <<batchVars, engineVars, codebaseVars, lastCall>>

\* instance n runs optimizeSingle(file) to its end
callOptimizeSingle(n, file) ==
    /\ n \in DOMAIN instances
    /\ cacheOwner(n) \in DOMAIN instances
    /\ LET this == instances[n]
           owner == instances[cacheOwner(n)]
           absolutePath == resolve(file)
           call == optimizeSingle(this.config, owner.cache, absolutePath,
                                  MissingFiles, CorruptFiles, 0)
           origin == IF call.hit THEN owner.origin[absolutePath]
                     ELSE this.config
       IN  /\ instances' =
                  [instances EXCEPT ![cacheOwner(n)] =
                      [@ EXCEPT !.cache = call.cache,
                                !.origin =
                                    [p \in DOMAIN call.cache |->
                                        IF p \in DOMAIN owner.cache
                                        THEN owner.origin[p]
                                        ELSE this.config]]]
           /\ lastCall' = [instance |-> n, hit |-> call.hit,
                           error |-> call.error, result |-> call.result,
                           origin |-> origin]
    /\ UNCHANGED <<batchVars, engineVars, codebaseVars>>

NextInstances ==
    \/ \E c \in InstanceConfigs : newImageOptimizer(c)
    \/ \E n \in DOMAIN instances, file \in InputPaths :
          callOptimizeSingle(n, file)

SpecInstances == InitInstances /\ [][NextInstances]_vars

---------------------------------------------------------------------------
(* Properties of optimizeBatch *)

\* the single-file operations that have been started and have not settled
InFlightOps == { k \in DOMAIN ops : ops[k].st \in InFlight }

\* the chunk of position k: consecutive slices of size config.parallel
chunkOf(k) == (k - 1) \div config.parallel

C2_ChunkBarrier ==
    \A j \in DOMAIN ops : \A k \in DOMAIN ops :
        (chunkOf(j) < chunkOf(k) /\ ops[k].st # "new")
            => ops[j].st \in Settled

\* an operation of a later chunk is in flight after an earlier chunk
\* settled with a rejection in it
C2_Witness ==
    \E j \in DOMAIN ops : \E k \in DOMAIN ops :
        /\ chunkOf(j) < chunkOf(k)
        /\ ops[j].st = "rejected"
        /\ ops[k].st \in InFlight

failing(f) == resolve(f) \in MissingFiles \cup CorruptFiles

\* C3: in a run over at least two files of which one fails, every failing
\* position yields a {file, error} entry for its file and every other
\* position yields its record in results
C3_FailureIsolated ==
    (pc = "done" /\ Len(files) >= 2
        /\ \E k \in DOMAIN files : failing(files[k]))
    => /\ \A f \in InputPaths : failing(f) =>
              Cardinality({ n \in DOMAIN outcome.errors :
                              outcome.errors[n].file = f })
                  = Cardinality({ k \in DOMAIN files : files[k] = f })
       /\ \A p \in AbsPaths : ~failing(p) =>
              Cardinality({ n \in DOMAIN outcome.results :
                              outcome.results[n].path = p })
                  = Cardinality({ k \in DOMAIN files :
                                    resolve(files[k]) = p })

\* a batch returned in which a file failed, another file of the same chunk
\* succeeded and a file of a later chunk succeeded
C3_Witness ==
    /\ pc = "done"
    /\ \E j \in DOMAIN ops : \E k \in DOMAIN ops : \E l \in DOMAIN ops :
          /\ ops[j].st = "rejected"
          /\ chunkOf(k) = chunkOf(j) /\ ops[k].st = "fulfilled"
          /\ chunkOf(l) > chunkOf(j) /\ ops[l].st = "fulfilled"
          /\ \E n \in DOMAIN outcome.errors :
                outcome.errors[n].file = files[j]
          /\ \E n \in DOMAIN outcome.results :
                outcome.results[n] = ops[l].rec

\* positions j < k that are the first two calls on one absolute path, the
\* second started after the first settled (a later chunk)
successive(j, k) ==
    /\ j < k
    /\ resolve(files[j]) = resolve(files[k])
    /\ chunkOf(j) < chunkOf(k)
    /\ \A l \in DOMAIN files :
          (l < k /\ l # j) => resolve(files[l]) # resolve(files[k])

\* C4: with the cache enabled, two successive successful calls of
\* optimizeSingle on the same path, raster or SVG, do the expensive work
\* exactly once and the second call returns the record of the first
C4_SecondCallIsCacheHit ==
    config.cacheEnabled =>
        \A j \in DOMAIN ops : \A k \in DOMAIN ops :
            (successive(j, k) /\ ops[j].st = "fulfilled"
                /\ ops[k].st = "fulfilled")
            => /\ ops[j].worked
               /\ ~ops[k].worked
               /\ ops[k].rec = ops[j].rec
               /\ work[resolve(files[k])] = 1

\* positions j and k hold the same path in one chunk, both operations
\* have settled with a record, and one of them computed it
racing(j, k) ==
    /\ j < k
    /\ resolve(files[j]) = resolve(files[k])
    /\ chunkOf(j) = chunkOf(k)
    /\ ops[j].st = "fulfilled"
    /\ ops[k].st = "fulfilled"
    /\ (ops[j].worked \/ ops[k].worked)

\* a record without the identity of the object
content(rec) == [rec EXCEPT !.comp = 0]

\* C23: when the same path is in flight twice in one chunk, both
\* operations run the full computation, both settle with equivalent
\* records, and afterwards the cache holds one entry for the path, the
\* record of the operation that finished last.
C23_BenignRace ==
    config.cacheEnabled =>
        \A j \in DOMAIN ops : \A k \in DOMAIN ops :
            racing(j, k) =>
                /\ ops[j].worked /\ ops[k].worked
                /\ work[resolve(files[k])] >= 2
                /\ content(ops[j].rec) = content(ops[k].rec)
                /\ resolve(files[k]) \in DOMAIN cache
                /\ content(cache[resolve(files[k])]) = content(ops[k].rec)
                /\ cache[resolve(files[k])].comp >= ops[j].rec.comp
                /\ cache[resolve(files[k])].comp >= ops[k].rec.comp

\* C25: when optimizeBatch returns, every position of the input list has
\* contributed exactly one entry, a record in results or a {file, error}
\* entry in errors: the two lists have as many entries as there are input
\* files, filesProcessed is the number of records, and each errors entry
\* names a file whose operation failed.
C25_OneEntryPerInput ==
    pc = "done" =>
        /\ Len(outcome.results) + Len(outcome.errors) = Len(files)
        /\ outcome.filesProcessed = Len(outcome.results)
        /\ Len(outcome.results)
               = Cardinality({ k \in DOMAIN ops : ops[k].st = "fulfilled" })
        /\ \A f \in InputPaths :
              Cardinality({ n \in DOMAIN outcome.errors :
                              outcome.errors[n].file = f })
                  = Cardinality({ k \in DOMAIN ops :
                                    /\ files[k] = f
                                    /\ ops[k].st = "rejected" })

\* a batch of MaxFiles files has returned with records and with errors,
\* two of the errors from one chunk
C25_Witness ==
    /\ pc = "done"
    /\ Len(files) = MaxFiles
    /\ Len(outcome.results) >= 1
    /\ \E j \in DOMAIN ops : \E k \in DOMAIN ops :
          /\ j < k
          /\ chunkOf(j) = chunkOf(k)
          /\ ops[j].st = "rejected"
          /\ ops[k].st = "rejected"

\* every cache entry is the record of a computation for its path that
\* completed successfully, and a disabled cache is empty and serves no call
cacheIsSound ==
    /\ \A p \in DOMAIN cache :
          \E k \in DOMAIN ops :
              /\ resolve(files[k]) = p
              /\ ops[k].st = "fulfilled"
              /\ ops[k].worked
              /\ ops[k].rec = cache[p]
    /\ ~config.cacheEnabled =>
          /\ DOMAIN cache = {}
          /\ \A k \in DOMAIN ops : ops[k].st = "fulfilled" => ops[k].worked

\* a step changes the cache only by setting the entry of a path to the
\* record with which a computation for that path completes in this step,
\* and a step in which a call fails leaves the cache as it is
cacheStep ==
    /\ cache' # cache =>
          /\ config.cacheEnabled
          /\ \E k \in DOMAIN ops :
                /\ ops[k].st \in InFlight
                /\ ops'[k].st = "fulfilled"
                /\ cache' = cacheSet(cache, resolve(files[k]), ops'[k].rec)
    /\ (\E k \in DOMAIN ops :
           /\ k \in DOMAIN ops'
           /\ ops[k].st # "rejected"
           /\ ops'[k].st = "rejected") => cache' = cache

\* C28: in every reachable state the cache holds an entry for an absolute
\* path only if an optimizeSingle computation for that path completed
\* successfully, and the entry is the record that computation returned; a
\* call that fails leaves the cache unchanged, and with the cache disabled
\* the cache is never read or written.
C28_CacheHoldsCompletedRecords ==
    [][cacheIsSound /\ cacheIsSound' /\ cacheStep]_vars

\* the cache holds a record, a later call for the same path has been served
\* from it, and a call has failed in decoding
C28_Witness ==
    /\ config.cacheEnabled
    /\ \E j \in DOMAIN ops : \E k \in DOMAIN ops :
          /\ j < k
          /\ resolve(files[j]) = resolve(files[k])
          /\ resolve(files[j]) \in DOMAIN cache
          /\ ops[j].worked
          /\ ops[k].st = "fulfilled" /\ ~ops[k].worked
          /\ ops[k].rec = cache[resolve(files[k])]
    /\ \E k \in DOMAIN ops :
          ops[k].st = "rejected" /\ ops[k].reason = "EDECODE"

\* the output files that the operation at position k has written
written(k) ==
    IF ops[k].st = "fulfilled" /\ ops[k].worked
    THEN { ops[k].rec.optimized[n].path : n \in DOMAIN ops[k].rec.optimized }
    ELSE {}

\* C26: two distinct source files never map to the same output artifact
\* path, so two operations of one chunk on different source files never
\* write the same output file, whatever the directories and extensions of
\* the two sources.
C26_DistinctOutputs ==
    \A j \in DOMAIN ops : \A k \in DOMAIN ops :
        (chunkOf(j) = chunkOf(k) /\ resolve(files[j]) # resolve(files[k]))
        => written(j) \cap written(k) = {}

---------------------------------------------------------------------------
(* Properties of the decision engine *)

\* C5: for every combination of the six metrics and of the metadata the
\* quality returned by the decision engine is an integer in [65, 95]
C5_QualityInRange ==
    analysis.done => analysis.recommendedQuality \in 65..95

\* text and edge rules push the running value to 100 or more, and the
\* engine returns 95
C5_Witness ==
    /\ analysis.done
    /\ metrics.textLikelihood > 60
    /\ metrics.edgeDensity > 60
    /\ analysis.recommendedQuality = 95

\* the rules of the quality derivation as the specification lists them,
\* in its order, for metrics m and metadata d
StatedRules(m, d) ==
    << [on |-> m.textLikelihood > 40, kind |-> "set", val |-> 88],
       [on |-> m.textLikelihood > 60, kind |-> "set", val |-> 92],
       [on |-> m.photoLikelihood > 70, kind |-> "cap", val |-> 78],
       [on |-> m.complexity > 70 /\ m.textLikelihood < 30,
        kind |-> "add", val |-> 0 - 5],
       [on |-> m.edgeDensity > 60, kind |-> "add", val |-> 8],
       [on |-> m.colorVariance < 20, kind |-> "add", val |-> 5],
       [on |-> m.noiseLevel > 30, kind |-> "add", val |-> 0 - 3],
       [on |-> d.hasAlpha, kind |-> "add", val |-> 3],
       [on |-> d.width * d.height < 100000, kind |-> "add", val |-> 5],
       [on |-> d.width * d.height > 2000000, kind |-> "add",
        val |-> 0 - 3] >>

RECURSIVE applyRules(_, _)
applyRules(q, rules) ==
    IF rules = <<>> THEN q
    ELSE LET r == Head(rules)
             q2 == IF ~r.on THEN q
                   ELSE IF r.kind = "set" THEN r.val
                   ELSE IF r.kind = "cap" THEN (IF q < r.val THEN q ELSE r.val)
                   ELSE q + r.val
         IN  applyRules(q2, Tail(rules))

clampTo(lo, hi, q) == IF q < lo THEN lo ELSE IF q > hi THEN hi ELSE q

ExampleMetrics ==
    [complexity |-> 80, edgeDensity |-> 30, colorVariance |-> 50,
     noiseLevel |-> 10, textLikelihood |-> 10, photoLikelihood |-> 80]

IsExample ==
    /\ metrics = ExampleMetrics
    /\ ~metadata.hasAlpha
    /\ metadata.width * metadata.height = 500000
    /\ metadata.isAnimated # "true"

\* C6: the quality equals the value obtained from 80 by the stated rules
\* in the stated order on the running value, clamped to [65, 95]; the
\* documented example yields 73 and the formats avif, webp, jpeg
C6_StatedRuleOrder ==
    analysis.done =>
        /\ analysis.recommendedQuality
              = clampTo(65, 95, applyRules(80, StatedRules(metrics, metadata)))
        /\ IsExample =>
              /\ analysis.recommendedQuality = 73
              /\ analysis.recommendedFormats = <<"avif", "webp", "jpeg">>

\* the documented example has been decided
C6_Witness ==
    /\ analysis.done
    /\ IsExample
    /\ analysis.recommendedQuality = 73

\* C7: for an animated input the recommended formats are exactly
\* webp, gif whatever textLikelihood, photoLikelihood and hasAlpha are
C7_AnimatedFormats ==
    (analysis.done /\ metadata.isAnimated = "true")
        => analysis.recommendedFormats = <<"webp", "gif">>

\* an animated input that the text branch would otherwise have taken
C7_Witness ==
    /\ analysis.done
    /\ metadata.isAnimated = "true"
    /\ metrics.textLikelihood > 60
    /\ metadata.hasAlpha
    /\ analysis.recommendedFormats = <<"webp", "gif">>

\* C8: for every input of the format recommendation, isAnimated absent
\* included, the returned format list is non-empty
C8_FormatsNonEmpty ==
    analysis.done => Len(analysis.recommendedFormats) >= 1

\* a decision taken with isAnimated absent, in the mixed branch
C8_Witness ==
    /\ analysis.done
    /\ metadata.isAnimated = "absent"
    /\ metrics.textLikelihood <= 60
    /\ metrics.photoLikelihood <= 60
    /\ Len(analysis.recommendedFormats) = 2

\* C9: for a non-animated input the formats are webp, png when
\* textLikelihood > 0.6; otherwise avif, webp, jpeg when
\* photoLikelihood > 0.6; otherwise webp, png with alpha and webp, jpeg
\* without; the text branch takes precedence over the photo branch
C9_StillFormats ==
    (analysis.done /\ metadata.isAnimated # "true") =>
        /\ metrics.textLikelihood > 60
              => analysis.recommendedFormats = <<"webp", "png">>
        /\ (metrics.textLikelihood <= 60 /\ metrics.photoLikelihood > 60)
              => analysis.recommendedFormats = <<"avif", "webp", "jpeg">>
        /\ (metrics.textLikelihood <= 60 /\ metrics.photoLikelihood <= 60
              /\ metadata.hasAlpha)
              => analysis.recommendedFormats = <<"webp", "png">>
        /\ (metrics.textLikelihood <= 60 /\ metrics.photoLikelihood <= 60
              /\ ~metadata.hasAlpha)
              => analysis.recommendedFormats = <<"webp", "jpeg">>

\* a still image over both thresholds, decided as text
C9_Witness ==
    /\ analysis.done
    /\ metadata.isAnimated = "false"
    /\ metrics.textLikelihood > 60
    /\ metrics.photoLikelihood > 60
    /\ ~metadata.hasAlpha
    /\ analysis.recommendedFormats = <<"webp", "png">>

---------------------------------------------------------------------------
(* Properties of the savings, the formats and the order of the results *)

\* C14: the savings computation never divides by zero: for every batch
\* outcome the per-record average optimized size and
\* totalSavings.percentage are defined numbers, and a batch whose total
\* original size is 0 reports 0%
C14_SavingsDefined ==
    pc = "done" =>
        /\ \A n \in DOMAIN outcome.results :
              defined(avgSize(outcome.results[n]))
        /\ defined(outcome.totalSavings.percentage)
        /\ totalOriginalSize(outcome.results) = 0
              => outcome.totalSavings.percentage = Num(0, 1)

\* the formats the decision engine recommends for a decoded image
recommendedFor(p) ==
    recommendFormats(
        [textLikelihood |-> decodedMetrics(p).textLikelihood,
         photoLikelihood |-> decodedMetrics(p).photoLikelihood,
         hasAlpha |-> decodedMetadata(p).hasAlpha,
         isAnimated |-> decodedMetadata(p).isAnimated])

formatsOf(r) == [n \in DOMAIN r.optimized |-> r.optimized[n].format]

\* C18: whenever the auto-format flag is true the primary artifacts of a
\* raster are produced in the recommended formats, in every quality mode;
\* when it is false the configured format list is used
C18_AutoFormatOverrides ==
    \A k \in DOMAIN ops :
        (ops[k].st = "fulfilled" /\ ops[k].worked
            /\ extname(resolve(files[k])) # "svg")
        => formatsOf(ops[k].rec)
              = SelectSeq(IF config.autoFormat
                          THEN recommendedFor(resolve(files[k]))
                          ELSE config.formats,
                          LAMBDA f : f # "svg")

\* the n-th position of files, in input order, whose operation has status
\* st
nthWith(st, n) ==
    CHOOSE k \in DOMAIN ops :
        /\ ops[k].st = st
        /\ Cardinality({ j \in 1..k : ops[j].st = st }) = n

\* C20: results is ordered by position in the input list, not by
\* completion order, and so is the errors list
C20_InputOrder ==
    pc = "done" =>
        /\ Len(outcome.results)
              = Cardinality({ k \in DOMAIN ops : ops[k].st = "fulfilled" })
        /\ \A n \in DOMAIN outcome.results :
              outcome.results[n] = ops[nthWith("fulfilled", n)].rec
        /\ Len(outcome.errors)
              = Cardinality({ k \in DOMAIN ops : ops[k].st = "rejected" })
        /\ \A n \in DOMAIN outcome.errors :
              /\ outcome.errors[n].file = files[nthWith("rejected", n)]
              /\ outcome.errors[n].error
                    = ops[nthWith("rejected", n)].reason

\* a batch returned in which the later of two files of one chunk finished
\* first, and in which two files failed
C20_Witness ==
    /\ pc = "done"
    /\ \E j \in DOMAIN ops : \E k \in DOMAIN ops :
          /\ j < k /\ chunkOf(j) = chunkOf(k)
          /\ ops[j].worked /\ ops[k].worked
          /\ ops[k].rec.comp < ops[j].rec.comp
          /\ outcome.results[1] = ops[j].rec
    /\ Len(outcome.results) >= 2

---------------------------------------------------------------------------
(* Properties of convertCodebaseImages *)

\* a step of rewriteReference: the only step that shortens the queue
rewriting ==
    /\ cpc = "rewrite"
    /\ refQueue # <<>>
    /\ refQueue' = Tail(refQueue)

\* new is old with one occurrence of raw replaced by something, the text
\* before and after the occurrence kept, or new is old
replacedWithin(old, new, raw) ==
    \/ new = old
    \/ \E s \in 1..Len(old) :
          LET e == s + Len(raw) - 1
              rest == Len(old) - e
          IN  /\ e <= Len(old)
              /\ SubSeq(old, s, e) = raw
              /\ Len(new) >= s - 1 + rest
              /\ SubSeq(new, 1, s - 1) = SubSeq(old, 1, s - 1)
              /\ SubSeq(new, Len(new) - rest + 1, Len(new))
                     = SubSeq(old, e + 1, Len(old))

\* C11: a call of replaceImageReference changes only the raw path substring
\* on the recorded line: no other file changes, the file keeps its number
\* of lines, every other line is identical, and on the recorded line the
\* text before and after the replaced substring is identical.
C11_RewriteFrame ==
    [][rewriting =>
         LET ref == Head(refQueue)
             old == disk[ref.filePath]
             new == disk'[ref.filePath]
         IN  /\ \A f \in DOMAIN disk \ {ref.filePath} : disk'[f] = disk[f]
             /\ Len(new) = Len(old)
             /\ \A n \in DOMAIN old :
                   IF n = ref.lineNumber
                   THEN replacedWithin(old[n], new[n], ref.imagePath)
                   ELSE new[n] = old[n]]_vars

\* a reference on the last line of a file of MaxLines lines has been
\* rewritten, and the line now holds the path of the artifact
C11_Witness ==
    \E e \in rewriteLog :
        /\ e.changed
        /\ e.reference.lineNumber = MaxLines
        /\ Len(disk[e.reference.filePath]) = MaxLines
        /\ firstIndexOf(disk[e.reference.filePath][MaxLines],
                        <<"out", "/", "img", ".webp">>, 1) > 0

\* the raw path of the reference about to be rewritten is not on the
\* recorded line, or the recorded line is gone
staleReference ==
    LET ref == Head(refQueue)
        lines == disk[ref.filePath]
    IN  \/ ref.lineNumber \notin DOMAIN lines
        \/ firstIndexOf(lines[ref.lineNumber], ref.imagePath, 1) = 0

\* C12: when at rewrite time the raw path is not present on the recorded
\* line, or the line no longer exists, the rewrite of that reference fails
\* with an error reported for that reference, the file is left as it is
\* and is not counted as updated.
C12_StaleRewriteFails ==
    [][(rewriting /\ staleReference) =>
         /\ disk' = disk
         /\ updatedFiles' = updatedFiles
         /\ Len(convErrors') = Len(convErrors) + 1
         /\ convErrors'[Len(convErrors')].file
                = pathString(Head(refQueue).filePath)]_vars

\* C13: a reference is rewritten to the artifact of an image only if its
\* own raw path, resolved against the directory of its own file, is the
\* absolute path of that image.
C13_OwnResolution ==
    \A e \in rewriteLog : resolveImagePath(e.reference) = e.source

\* C15: the result reports the number of source files scanned, of
\* references found, of distinct image paths referenced, of images
\* optimized and of distinct source files whose content was modified.
C15_Counts ==
    cpc = "done" =>
        /\ convOutcome.scannedFiles
               = Len(getCodeFiles(config.codebaseRoot))
        /\ convOutcome.imageReferences = Len(scanResult.references)
        /\ convOutcome.uniqueImages
               = Cardinality({ scanResult.references[n].imagePath :
                                   n \in DOMAIN scanResult.references })
        /\ convOutcome.convertedImages
               = Cardinality({ e.source : e \in rewriteLog })
        /\ convOutcome.updatedFiles
               = Cardinality({ e.reference.filePath :
                                   e \in { x \in rewriteLog : x.changed } })

\* nothing of the run has happened: no scan, no optimization, no write,
\* no collected error, no result
noWorkDone ==
    /\ scanResult = NoScan
    /\ DOMAIN cache = {}
    /\ rewriteLog = {}
    /\ convErrors = <<>>
    /\ convOutcome = NoConversion

\* C16 as stated: with rewrite not enabled, or rewrite requested without a
\* scan root, the call rejects at once, before any work, and the failure
\* is not collected into an errors list.
C16_PreconditionFailureRaises ==
    (cpc # "idle" /\ (~config.updateCodebase
                         \/ ~userConfig.codebaseRoot.given)) =>
        (cpc = "threw" /\ thrown = ConfigError /\ noWorkDone)

\* C16, amended: with rewrite not enabled the call rejects at once, before
\* any work, and the failure is not collected; with rewrite requested
\* and no scan root given the root is the working directory of the process
\* and the call does not reject for its configuration.
C16_DisabledRewriteRaises ==
    /\ (cpc # "idle" /\ ~config.updateCodebase) =>
           (cpc = "threw" /\ thrown = ConfigError /\ noWorkDone)
    /\ (cpc # "idle" /\ config.updateCodebase
            /\ ~userConfig.codebaseRoot.given) =>
           (config.codebaseRoot = ProcessCwd /\ thrown # ConfigError)

\* the call has rejected for its configuration
C16_Witness ==
    /\ cpc = "threw"
    /\ thrown = ConfigError
    /\ ~config.updateCodebase

\* the image a raw path of the scan stands for cannot be optimized
failingImage(imagePath) ==
    LET refs == refsOf(scanResult.references, imagePath)
        absolutePath == resolveImagePath(refs[1])
    IN  absolutePath \notin SourceImages \/ absolutePath \in CorruptImages

\* C17: a failure confined to one source file, one image or one reference
\* never makes convertCodebaseImages reject; it becomes an entry of the
\* errors list and a result is returned.
C17_ItemFailuresCollected ==
    /\ cpc = "threw" => thrown = ConfigError
    /\ cpc = "done" =>
           \A n \in DOMAIN scanResult.uniqueImages :
               failingImage(scanResult.uniqueImages[n]) =>
                   \E k \in DOMAIN convOutcome.errors :
                       convOutcome.errors[k].file
                           = scanResult.uniqueImages[n]

---------------------------------------------------------------------------
(* Properties of the cache across instances *)

\* C19: a cache entry is only returned to a caller running under the
\* configuration that produced it: every entry of the cache of an instance
\* was computed under the configuration the instance has now, and a call
\* answered from the cache returns a record computed under the
\* configuration of the instance that was called.
C19_EntryUnderOwnConfig ==
    /\ \A n \in DOMAIN instances :
          \A p \in DOMAIN instances[n].cache :
              instances[n].origin[p] = instances[n].config
    /\ lastCall.hit =>
           lastCall.origin = instances[lastCall.instance].config

\* two instances of different configurations hold an entry for the same
\* path, and the last call was answered from a cache
C19_Witness ==
    /\ Len(instances) >= 2
    /\ instances[1].config # instances[2].config
    /\ DOMAIN instances[1].cache \cap DOMAIN instances[2].cache # {}
    /\ lastCall.hit

---------------------------------------------------------------------------
(* Properties of the metrics extractor *)

inUnitInterval(x) == defined(x) /\ 0 <= x.num /\ x.num <= x.den

\* C21: for every pixel buffer of width and height at least 1 each of the
\* six metrics of the extractor is a defined number in [0,1]; none is the
\* result of a division by zero.
C21_MetricsInUnitInterval ==
    extracted.done =>
        /\ inUnitInterval(extracted.complexity)
        /\ inUnitInterval(extracted.edgeDensity)
        /\ inUnitInterval(extracted.colorVariance)
        /\ inUnitInterval(extracted.noiseLevel)
        /\ inUnitInterval(extracted.textLikelihood)
        /\ inUnitInterval(extracted.photoLikelihood)

\* C29: every index the extractor reads lies inside the buffer, and a
\* read made for a sampled pixel is a read of a channel of that pixel.
C29_ReadsInsideBuffer ==
    \A r \in bufferReads :
        /\ 0 <= r.index
        /\ r.index < buffer.width * buffer.height * buffer.channels
        /\ r.index - r.pixel < buffer.channels

---------------------------------------------------------------------------
(* Properties of the scan *)

\* the start positions of the matches of one pattern class on a line
matchStarts(type, l) == { s \in DOMAIN l : matchAt(type, l, s).ok }

\* the references the scan holds for one file, line and class, in order
recorded(f, n, type) ==
    SelectSeq(scanResult.references,
              LAMBDA ref : /\ ref.filePath = f
                           /\ ref.lineNumber = n
                           /\ ref.type = type)

\* C22: the scan applies the four pattern classes independently to every
\* line: each match yields one reference with the raw path as written,
\* the 1-based number of the line and the kind of the class, and every
\* match of every class on a line is recorded.
C22_EveryMatchRecorded ==
    cpc = "loop" =>
        /\ \A f \in DOMAIN disk : \A n \in DOMAIN disk[f] :
              \A t \in DOMAIN PatternTypes :
                  LET refs == recorded(f, n, PatternTypes[t])
                      starts == matchStarts(PatternTypes[t], disk[f][n])
                  IN  /\ Len(refs) = Cardinality(starts)
                      /\ \A s \in starts :
                            \E k \in DOMAIN refs :
                                /\ refs[k].imagePath =
                                       matchAt(PatternTypes[t],
                                               disk[f][n], s).path
                                /\ k = Cardinality(
                                           { j \in starts : j <= s })
        /\ \A k \in DOMAIN scanResult.references :
              LET ref == scanResult.references[k]
              IN  /\ ref.filePath \in DOMAIN disk
                  /\ ref.lineNumber \in DOMAIN disk[ref.filePath]
                  /\ firstIndexOf(disk[ref.filePath][ref.lineNumber],
                                  ref.imagePath, 1) > 0
                  /\ \E t \in DOMAIN PatternTypes :
                        ref.type = PatternTypes[t]

\* the scan found a line with two matches of one class on the last line
\* of a file and a line with matches of two classes
C22_Witness ==
    /\ cpc = "loop"
    /\ Len(recorded(FileX, MaxLines, "src")) = 2
    /\ \E n \in DOMAIN disk[FileY] :
          /\ Len(recorded(FileY, n, "url")) = 1
          /\ Len(recorded(FileY, n, "background")) = 1

---------------------------------------------------------------------------
(* Termination of optimizeBatch *)

\* C24: for every file list and every value of the concurrency limit, if
\* every dispatched operation settles then optimizeBatch eventually
\* returns, every input file having been dispatched.
C24_BatchReturns ==
    <>(pc = "done" /\ \A k \in DOMAIN ops : ops[k].st \in Settled)

RECURSIVE replaceEach(_, _, _)
\* l with every occurrence of pat, taken from left to right, replaced by
\* new once
replaceEach(l, pat, new) ==
    LET s == firstIndexOf(l, pat, 1)
    IN  IF s = 0 THEN l
        ELSE SubSeq(l, 1, s - 1) \o new
                 \o replaceEach(SubSeq(l, s + Len(pat), Len(l)), pat, new)

\* the loop over the references of the current image has ended and no
\* other program has touched the files
allReferencesProcessed ==
    /\ cpc = "rewrite"
    /\ refQueue = <<>>
    /\ edits = 0

Range(q) == { q[n] : n \in DOMAIN q }

\* the references of the current image, on lines that name no other image
referencesProcessed ==
    { ref \in Range(scanResult.references) :
        /\ ref.imagePath = scanResult.uniqueImages[imageIdx]
        /\ \A other \in Range(scanResult.references) :
              (other.filePath = ref.filePath
                  /\ other.lineNumber = ref.lineNumber)
              => other.imagePath = ref.imagePath }

\* C27: each occurrence of an image path in a source line is rewritten
\* exactly once, even when the scan recorded the occurrence several times
\* and even when the new path contains the old raw path: after all
\* references of the image are processed the line equals the original line
\* with each occurrence replaced by the new path.
C27_EachOccurrenceRewrittenOnce ==
    allReferencesProcessed =>
        \A ref \in referencesProcessed :
            trim(disk[ref.filePath][ref.lineNumber])
                = replaceEach(ref.lineContent, ref.imagePath,
                              pathRelative(ref.filePath.dir,
                                           artifact.optimizedImage.path))

\* result.optimized[0] of the record for a source image: the optimized
\* SVG of an SVG source, and for a raster the artifact of the first format
\* other than 'svg' in the list that optimizeSingle uses
firstProduced(cfg, source) ==
    IF extname(source) = "svg"
    THEN [dir |-> cfg.outputDir, name |-> source.name, ext |-> source.ext]
    ELSE generateOutputPath(
             cfg, source,
             Head(SelectSeq(formatsFor(cfg, source), LAMBDA f : f # "svg")))

\* the files after the rewrite of the next reference to the path target,
\* computed relative to the directory of the referencing file
rewrittenTo(target) ==
    replaceImageReference(
        disk, Head(refQueue),
        pathRelative(Head(refQueue).filePath.dir, target)).disk

\* C30 as stated: when several output formats exist, the path written
\* into the source files is the artifact of the first entry of the
\* configured format list, relative to the directory of the referencing
\* file.
C30_FirstConfiguredFormat ==
    [][rewriting =>
         disk' = rewrittenTo(generateOutputPath(config, artifact.source,
                                                config.formats[1]))]_vars

\* C30, amended: the path written into the source files is the first
\* artifact that the optimization of the image produced, relative to the
\* directory of the referencing file: for a raster the artifact of the
\* first format other than 'svg' in the format list in use, for an SVG
\* source the optimized SVG whatever the format list.
C30_FirstProducedArtifact ==
    [][rewriting => disk' = rewrittenTo(firstProduced(config,
                                                     artifact.source))]_vars

\* with svg the first of two configured formats, a reference to the raster
\* img.png has been rewritten to the webp artifact
C30_Witness ==
    /\ config.formats = <<"svg", "webp">>
    /\ edits = 0
    /\ \E e \in rewriteLog :
          /\ e.changed
          /\ e.source = P(SrcA, "img", "png")
          /\ firstIndexOf(
                 disk[e.reference.filePath][e.reference.lineNumber],
                 <<"out", "/", "img", ".webp">>, 1) > 0

====
